---- MODULE Spec2Model ----
(***************************************************************************)
(* Model of the WellFix job status state machine: the role-gated status    *)
(* transition validator (wellfix_api/core/status_validator.py) and the job *)
(* service built on it (wellfix_api/api/v1/endpoints/jobs.py over          *)
(* wellfix_api/crud/crud_job.py).                                          *)
(***************************************************************************)
EXTENDS Integers, Sequences, FiniteSets, TLC

(***************************************************************************)
(* Enumerations.                                                           *)
(***************************************************************************)
\* models/enums.py: class JobStatus (16 members)
JobStatus ==
    { "PENDING_ASSIGNMENT", "ASSIGNED", "PENDING_VISIT", "PENDING_PICKUP_FOR_LAB",
      "IN_TRANSIT_TO_LAB", "IN_TRANSIT_FROM_LAB", "ON_SITE_DIAGNOSIS",
      "LAB_DIAGNOSIS", "ESCALATED_TO_LAB", "PENDING_QUOTE_APPROVAL",
      "REPAIR_IN_PROGRESS_LAB", "REPAIR_IN_PROGRESS_ON_SITE",
      "PENDING_RETURN_DELIVERY", "PENDING_PAYMENT", "COMPLETED", "CANCELLED" }

\* models/user.py: class UserRole(str, Enum)
UserRole == { "CUSTOMER", "ENGINEER", "ADMIN" }

\* Values a caller can pass as a role that are no member of UserRole.  UserRole
\* is a str-Enum, so only a value equal to one of the three member strings
\* compares equal to a member; these do not.
UnknownRoles == { "admin", "MANAGER", "None" }

AnyRole == UserRole \cup UnknownRoles

\* Python's None / SQL NULL.
NULL == "NULL"

(***************************************************************************)
(* core/status_validator.py: the three transition tables.                  *)
(***************************************************************************)
\* The admin table as data, COMPLETED and CANCELLED rows included.
ADMIN_TRANSITIONS_Rows ==
    [ s \in JobStatus |->
        CASE s = "PENDING_ASSIGNMENT" -> { "ASSIGNED", "CANCELLED" }
          [] s = "ASSIGNED" -> { "PENDING_PICKUP_FOR_LAB", "PENDING_VISIT", "CANCELLED" }
          [] s = "PENDING_PICKUP_FOR_LAB" -> { "IN_TRANSIT_TO_LAB", "CANCELLED", "ON_SITE_DIAGNOSIS" }
          [] s = "IN_TRANSIT_TO_LAB" -> { "LAB_DIAGNOSIS", "CANCELLED" }
          [] s = "PENDING_VISIT" -> { "ON_SITE_DIAGNOSIS", "CANCELLED", "ESCALATED_TO_LAB" }
          [] s = "ON_SITE_DIAGNOSIS" -> { "REPAIR_IN_PROGRESS_ON_SITE", "PENDING_QUOTE_APPROVAL",
                                          "CANCELLED", "ESCALATED_TO_LAB" }
          [] s = "LAB_DIAGNOSIS" -> { "REPAIR_IN_PROGRESS_LAB", "PENDING_QUOTE_APPROVAL", "CANCELLED" }
          [] s = "ESCALATED_TO_LAB" -> { "PENDING_PICKUP_FOR_LAB", "CANCELLED" }
          [] s = "PENDING_QUOTE_APPROVAL" -> { "REPAIR_IN_PROGRESS_LAB", "REPAIR_IN_PROGRESS_ON_SITE",
                                               "CANCELLED" }
          [] s = "REPAIR_IN_PROGRESS_LAB" -> { "PENDING_RETURN_DELIVERY", "PENDING_PAYMENT", "CANCELLED" }
          [] s = "REPAIR_IN_PROGRESS_ON_SITE" -> { "PENDING_PAYMENT", "CANCELLED" }
          [] s = "PENDING_RETURN_DELIVERY" -> { "IN_TRANSIT_FROM_LAB", "CANCELLED" }
          [] s = "IN_TRANSIT_FROM_LAB" -> { "PENDING_PAYMENT", "CANCELLED" }
          [] s = "PENDING_PAYMENT" -> { "COMPLETED", "CANCELLED" }
          [] s = "COMPLETED" -> {}
          [] s = "CANCELLED" -> {} ]

\* Mutant of ADMIN_TRANSITIONS: the admin may cancel a completed job (the
\* COMPLETED row is given a CANCELLED exit like every other row).
ADMIN_TRANSITIONS_CompletedCancellable ==
    [ ADMIN_TRANSITIONS_Rows EXCEPT !["COMPLETED"] = { "CANCELLED" } ]

\* Mutant of ADMIN_TRANSITIONS: a repair in progress in the lab cannot be
\* cancelled.
ADMIN_TRANSITIONS_NoAbortInLabRepair ==
    [ ADMIN_TRANSITIONS_Rows EXCEPT !["REPAIR_IN_PROGRESS_LAB"] = @ \ { "CANCELLED" } ]

\* Mutant of ADMIN_TRANSITIONS: the admin cannot approve a quote.
ADMIN_TRANSITIONS_NoQuoteApproval ==
    [ ADMIN_TRANSITIONS_Rows EXCEPT !["PENDING_QUOTE_APPROVAL"] = { "CANCELLED" } ]

\* Mutant of ADMIN_TRANSITIONS: no escalation to the lab from the on-site
\* diagnosis.
ADMIN_TRANSITIONS_NoEscalation ==
    [ ADMIN_TRANSITIONS_Rows EXCEPT !["ON_SITE_DIAGNOSIS"] = @ \ { "ESCALATED_TO_LAB" } ]

\* status_validator.ADMIN_TRANSITIONS
ADMIN_TRANSITIONS == ADMIN_TRANSITIONS_Rows

\* The rows of status_validator.ENGINEER_TRANSITIONS
ENGINEER_TRANSITIONS_Rows ==
    [ s \in JobStatus |->
        CASE s = "PENDING_ASSIGNMENT" -> {}
          [] s = "ASSIGNED" -> { "PENDING_PICKUP_FOR_LAB", "PENDING_VISIT" }
          [] s = "PENDING_PICKUP_FOR_LAB" -> { "IN_TRANSIT_TO_LAB", "ON_SITE_DIAGNOSIS" }
          [] s = "IN_TRANSIT_TO_LAB" -> { "LAB_DIAGNOSIS" }
          [] s = "PENDING_VISIT" -> { "ON_SITE_DIAGNOSIS", "ESCALATED_TO_LAB" }
          [] s = "ON_SITE_DIAGNOSIS" -> { "REPAIR_IN_PROGRESS_ON_SITE", "PENDING_QUOTE_APPROVAL",
                                          "ESCALATED_TO_LAB" }
          [] s = "LAB_DIAGNOSIS" -> { "REPAIR_IN_PROGRESS_LAB", "PENDING_QUOTE_APPROVAL" }
          [] s = "ESCALATED_TO_LAB" -> { "PENDING_PICKUP_FOR_LAB" }
          [] s = "PENDING_QUOTE_APPROVAL" -> {}
          [] s = "REPAIR_IN_PROGRESS_LAB" -> { "PENDING_RETURN_DELIVERY", "PENDING_PAYMENT" }
          [] s = "REPAIR_IN_PROGRESS_ON_SITE" -> { "PENDING_PAYMENT" }
          [] s = "PENDING_RETURN_DELIVERY" -> { "IN_TRANSIT_FROM_LAB" }
          [] s = "IN_TRANSIT_FROM_LAB" -> { "PENDING_PAYMENT" }
          [] s = "PENDING_PAYMENT" -> { "COMPLETED" }
          [] s = "COMPLETED" -> {}
          [] s = "CANCELLED" -> {} ]

\* Mutant of ENGINEER_TRANSITIONS: the engineer cannot complete a job that
\* waits for its payment.
ENGINEER_TRANSITIONS_NoCompletion ==
    [ ENGINEER_TRANSITIONS_Rows EXCEPT !["PENDING_PAYMENT"] = {} ]

\* Mutant of ENGINEER_TRANSITIONS: the engineer has no fallback from the
\* pickup for the lab to the on-site diagnosis.
ENGINEER_TRANSITIONS_NoFallback ==
    [ ENGINEER_TRANSITIONS_Rows EXCEPT !["PENDING_PICKUP_FOR_LAB"] = { "IN_TRANSIT_TO_LAB" } ]

\* status_validator.ENGINEER_TRANSITIONS
ENGINEER_TRANSITIONS == ENGINEER_TRANSITIONS_Rows

\* status_validator.CUSTOMER_TRANSITIONS
CUSTOMER_TRANSITIONS ==
    [ s \in JobStatus |->
        CASE s = "PENDING_ASSIGNMENT" -> { "CANCELLED" }
          [] s = "ASSIGNED" -> { "CANCELLED" }
          [] s = "PENDING_PICKUP_FOR_LAB" -> { "CANCELLED" }
          [] s = "PENDING_VISIT" -> { "CANCELLED" }
          [] s = "PENDING_QUOTE_APPROVAL" -> { "REPAIR_IN_PROGRESS_LAB", "REPAIR_IN_PROGRESS_ON_SITE",
                                               "CANCELLED" }
          [] s = "IN_TRANSIT_TO_LAB" -> {}
          [] s = "LAB_DIAGNOSIS" -> {}
          [] s = "ON_SITE_DIAGNOSIS" -> {}
          [] s = "ESCALATED_TO_LAB" -> {}
          [] s = "REPAIR_IN_PROGRESS_LAB" -> {}
          [] s = "REPAIR_IN_PROGRESS_ON_SITE" -> {}
          [] s = "PENDING_RETURN_DELIVERY" -> {}
          [] s = "IN_TRANSIT_FROM_LAB" -> {}
          [] s = "PENDING_PAYMENT" -> {}
          [] s = "COMPLETED" -> {}
          [] s = "CANCELLED" -> {} ]

\* dict.get(key, set()): the entry if the key is present, else the empty set.
TableGet(transitions, current_status) ==
    IF current_status \in DOMAIN transitions THEN transitions[current_status] ELSE {}

\* Mutant of is_transition_allowed: the same-status rule is not checked first.
is_transition_allowed_NoSelfRule(current_status, new_status, user_role) ==
    IF user_role = "ADMIN" THEN new_status \in TableGet(ADMIN_TRANSITIONS, current_status)
    ELSE IF user_role = "ENGINEER" THEN new_status \in TableGet(ENGINEER_TRANSITIONS, current_status)
    ELSE IF user_role = "CUSTOMER" THEN new_status \in TableGet(CUSTOMER_TRANSITIONS, current_status)
    ELSE FALSE

\* Mutant of is_transition_allowed: the lookup falls back to the admin table
\* for a role it does not recognise.
is_transition_allowed_UnknownAsAdmin(current_status, new_status, user_role) ==
    IF current_status = new_status THEN TRUE
    ELSE IF user_role = "ENGINEER" THEN new_status \in TableGet(ENGINEER_TRANSITIONS, current_status)
    ELSE IF user_role = "CUSTOMER" THEN new_status \in TableGet(CUSTOMER_TRANSITIONS, current_status)
    ELSE new_status \in TableGet(ADMIN_TRANSITIONS, current_status)

\* Mutant of is_transition_allowed: an engineer is looked up in the admin
\* table.
is_transition_allowed_EngineerAsAdmin(current_status, new_status, user_role) ==
    IF current_status = new_status THEN TRUE
    ELSE IF user_role \in { "ADMIN", "ENGINEER" }
         THEN new_status \in TableGet(ADMIN_TRANSITIONS, current_status)
    ELSE IF user_role = "CUSTOMER" THEN new_status \in TableGet(CUSTOMER_TRANSITIONS, current_status)
    ELSE FALSE

\* Mutant of is_transition_allowed: a customer may cancel from every
\* non-terminal status.
is_transition_allowed_CustomerCancelsAnytime(current_status, new_status, user_role) ==
    IF current_status = new_status THEN TRUE
    ELSE IF user_role = "ADMIN" THEN new_status \in TableGet(ADMIN_TRANSITIONS, current_status)
    ELSE IF user_role = "ENGINEER" THEN new_status \in TableGet(ENGINEER_TRANSITIONS, current_status)
    ELSE IF user_role = "CUSTOMER"
         THEN \/ new_status \in TableGet(CUSTOMER_TRANSITIONS, current_status)
              \/ new_status = "CANCELLED" /\ current_status # "COMPLETED"
    ELSE FALSE

\* status_validator.is_transition_allowed
is_transition_allowed(current_status, new_status, user_role) ==
    IF current_status = new_status THEN TRUE
    ELSE IF user_role = "ADMIN" THEN new_status \in TableGet(ADMIN_TRANSITIONS, current_status)
    ELSE IF user_role = "ENGINEER" THEN new_status \in TableGet(ENGINEER_TRANSITIONS, current_status)
    ELSE IF user_role = "CUSTOMER" THEN new_status \in TableGet(CUSTOMER_TRANSITIONS, current_status)
    ELSE FALSE

\* Mutant of get_allowed_transitions: the CUSTOMER branch is missing, so a
\* customer falls into the unknown-role branch.
get_allowed_transitions_NoCustomer(current_status, role) ==
    IF role = "ADMIN" THEN TableGet(ADMIN_TRANSITIONS, current_status)
    ELSE IF role = "ENGINEER" THEN TableGet(ENGINEER_TRANSITIONS, current_status)
    ELSE {}

\* Mutant of get_allowed_transitions: the current status is enumerated too.
get_allowed_transitions_WithCurrent(current_status, role) ==
    IF role = "ADMIN" THEN TableGet(ADMIN_TRANSITIONS, current_status) \cup { current_status }
    ELSE IF role = "ENGINEER" THEN TableGet(ENGINEER_TRANSITIONS, current_status)
    ELSE IF role = "CUSTOMER" THEN TableGet(CUSTOMER_TRANSITIONS, current_status)
    ELSE {}

\* status_validator.get_allowed_transitions.  The code returns list(set): the
\* members of the table entry in no particular order and without repetition;
\* the model keeps the set of the list's elements.
get_allowed_transitions(current_status, role) ==
    IF role = "ADMIN" THEN TableGet(ADMIN_TRANSITIONS, current_status)
    ELSE IF role = "ENGINEER" THEN TableGet(ENGINEER_TRANSITIONS, current_status)
    ELSE IF role = "CUSTOMER" THEN TableGet(CUSTOMER_TRANSITIONS, current_status)
    ELSE {}

(***************************************************************************)
(* Users.  Every authenticated user is a row of the users table with one   *)
(* of the three roles (core/dependencies.py: get_current_user).            *)
(***************************************************************************)
Admins == { "a1" }
Engineers == { "e1", "e2" }
Customers == { "c1", "c2" }
Users == Admins \cup Engineers \cup Customers

\* User.role of an existing user.
role_of(u) ==
    IF u \in Admins THEN "ADMIN" ELSE IF u \in Engineers THEN "ENGINEER" ELSE "CUSTOMER"

\* Job ids create_job can allocate; a request names one of them (before the
\* job is created it is the id of no job: the 404 path).
JobIds == { 1 }
JobIdInputs == JobIds

\* The users who send each kind of request.  Every customer fails the first
\* check of the status and assign endpoints alike, so one customer stands
\* for them there; "c2" is the customer who owns no job.
CreateRequesters == Admins \cup Engineers \cup { "c1" }
StatusRequesters == { "a1", "e1", "c1" }
CancelRequesters == Users
AssignRequesters == Admins \cup { "e1", "c1" }

\* Request payloads.
NoteInputs == { NULL, "note" }
ConsentInputs == { NULL, "true", "false" }
SerialConsentInputs == { NULL, "true" }
EngineerIdInputs == { "e1", NULL, "c1" }

\* Cap on the rows of job_status_updates (the table grows without bound).
MaxHistory == 7
\* Cap on the same-status rows (previous_status = new_status) of the table.
MaxNoop == 1
\* Cap on the note entries a job accumulates.
MaxNotes == 1

\* Python truthiness of an Optional[str].
Truthy(x) == x \notin { NULL, "" }

VARIABLES
    vcall,                \* a call of the validator: inputs and results
    repair_jobs,          \* table repair_jobs: job id -> row
    job_status_updates,   \* table job_status_updates, in insertion order
    ratings,              \* table ratings, in insertion order
    response,             \* the response to the last request answered
    req                   \* the requests in flight, when requests interleave

vars == << vcall, repair_jobs, job_status_updates, ratings, response, req >>

TerminalStatuses == { "COMPLETED", "CANCELLED" }

\* HTTP responses: the status code and which HTTPException detail it carries.
OK == [ code |-> 200, detail |-> "ok" ]
Created == [ code |-> 201, detail |-> "ok" ]
Forbidden == [ code |-> 403, detail |-> "forbidden" ]
NotFound == [ code |-> 404, detail |-> "not_found" ]
InvalidTransition == [ code |-> 422, detail |-> "invalid_transition" ]
ConsentRequired == [ code |-> 422, detail |-> "consent_required" ]
NotCancellable == [ code |-> 422, detail |-> "not_cancellable" ]
NotAssignable == [ code |-> 422, detail |-> "not_assignable" ]
NotEngineer == [ code |-> 422, detail |-> "not_engineer" ]
EstimateNotAllowed == [ code |-> 422, detail |-> "estimated_cost_not_allowed" ]
FinalCostNotAllowed == [ code |-> 422, detail |-> "final_cost_not_allowed" ]
PaymentNotAllowed == [ code |-> 422, detail |-> "payment_not_allowed" ]
NotCompleted == [ code |-> 422, detail |-> "not_completed" ]
AlreadyRated == [ code |-> 422, detail |-> "already_rated" ]
ServerError == [ code |-> 500, detail |-> "internal_server_error" ]
NoResponse == [ code |-> 0, detail |-> "none" ]

(***************************************************************************)
(* The validator applied to inputs drawn from bounded sets.                *)
(***************************************************************************)
NoCall ==
    [ current |-> "PENDING_ASSIGNMENT", target |-> "PENDING_ASSIGNMENT", role |-> "ADMIN",
      is_done |-> FALSE, allowed |-> FALSE, get_done |-> FALSE, next |-> {} ]

\* The requests that can be in flight at a time, and a slot with none.
Reqs == { "r1", "r2" }
IdleReq == [ pc |-> "idle", op |-> "none" ]
StoppedReq == [ pc |-> "stopped", op |-> "none" ]

InitValidator ==
    /\ vcall \in [ current : JobStatus, target : JobStatus, role : AnyRole,
                   is_done : { FALSE }, allowed : { FALSE },
                   get_done : { FALSE }, next : { {} } ]
    /\ repair_jobs = << >>
    /\ job_status_updates = << >>
    /\ ratings = << >>
    /\ response = NoResponse
    /\ req = [ r \in Reqs |-> IdleReq ]

\* Mutant of Call_is_transition_allowed: the validator keeps the list of the
\* latest enumeration and answers from it.
Call_is_transition_allowed_Cached ==
    /\ ~vcall.is_done
    /\ vcall' = [ vcall EXCEPT !.is_done = TRUE,
                               !.allowed = IF vcall.get_done THEN vcall.target \in vcall.next
                                           ELSE is_transition_allowed(vcall.current, vcall.target,
                                                                      vcall.role) ]
    /\ UNCHANGED << repair_jobs, job_status_updates, ratings, response, req >>

Call_is_transition_allowed ==
    /\ ~vcall.is_done
    /\ vcall' = [ vcall EXCEPT !.is_done = TRUE,
                               !.allowed = is_transition_allowed(vcall.current, vcall.target, vcall.role) ]
    /\ UNCHANGED << repair_jobs, job_status_updates, ratings, response, req >>

Call_get_allowed_transitions ==
    /\ ~vcall.get_done
    /\ vcall' = [ vcall EXCEPT !.get_done = TRUE,
                               !.next = get_allowed_transitions(vcall.current, vcall.role) ]
    /\ UNCHANGED << repair_jobs, job_status_updates, ratings, response, req >>

NextValidator == Call_is_transition_allowed \/ Call_get_allowed_transitions

SpecValidator == InitValidator /\ [][NextValidator]_vars

(***************************************************************************)
(* Claims about the validator (checked under SpecValidator).               *)
(***************************************************************************)
\* C1 -- Reflexivity: for every status s and every role value, known or
\* unrecognised, is_transition_allowed(s, s, role) returns true.
C1_Reflexivity ==
    (vcall.is_done /\ vcall.current = vcall.target) => vcall.allowed = TRUE

\* C1 witness: a same-status call by an unrecognised role has returned true.
C1_Witness ==
    /\ vcall.is_done
    /\ vcall.current = vcall.target
    /\ vcall.role \in UnknownRoles
    /\ vcall.allowed = TRUE

\* C2 -- Terminal absorption: from COMPLETED and from CANCELLED, for every
\* role, is_transition_allowed is false for every other target and
\* get_allowed_transitions is empty.
C2_TerminalAbsorption ==
    vcall.current \in TerminalStatuses =>
        /\ (vcall.is_done /\ vcall.target # vcall.current) => vcall.allowed = FALSE
        /\ vcall.get_done => vcall.next = {}

\* C2 witness: the admin asked COMPLETED -> CANCELLED and was denied, and the
\* allowed set of COMPLETED came back empty.
C2_Witness ==
    /\ vcall.is_done /\ vcall.get_done
    /\ vcall.current = "COMPLETED" /\ vcall.target = "CANCELLED" /\ vcall.role = "ADMIN"
    /\ vcall.allowed = FALSE /\ vcall.next = {}

\* C3 -- Unknown-role denial: for a role that is none of ADMIN, ENGINEER,
\* CUSTOMER, is_transition_allowed(s1, s2, role) is false whenever s1 # s2 and
\* get_allowed_transitions(s1, role) is empty.
C3_UnknownRoleDenial ==
    vcall.role \notin UserRole =>
        /\ (vcall.is_done /\ vcall.target # vcall.current) => vcall.allowed = FALSE
        /\ vcall.get_done => vcall.next = {}

\* C3 witness: an unrecognised role asked for a transition the admin table
\* holds and was denied by both functions.
C3_Witness ==
    /\ vcall.is_done /\ vcall.get_done
    /\ vcall.role \in UnknownRoles
    /\ vcall.target \in ADMIN_TRANSITIONS[vcall.current]
    /\ vcall.allowed = FALSE /\ vcall.next = {}

\* C4 -- Table/enumeration consistency: for every role, status s and target
\* t # s, t is in get_allowed_transitions(s, role) exactly when
\* is_transition_allowed(s, t, role) is true.
C4_Consistency ==
    (vcall.is_done /\ vcall.get_done /\ vcall.target # vcall.current) =>
        ((vcall.target \in vcall.next) <=> (vcall.allowed = TRUE))

\* C4 witness: both functions were applied to a customer's quote approval
\* and agree that it is allowed.
C4_Witness ==
    /\ vcall.is_done /\ vcall.get_done
    /\ vcall.role = "CUSTOMER"
    /\ vcall.current = "PENDING_QUOTE_APPROVAL" /\ vcall.target = "REPAIR_IN_PROGRESS_LAB"
    /\ vcall.target \in vcall.next /\ vcall.allowed = TRUE

(***************************************************************************)
(* crud/crud_job.py: the persistence layer.                                *)
(***************************************************************************)
\* crud_job.get_job(...) is not None
JobExists(job_id) == job_id \in DOMAIN repair_jobs

\* crud_job.create_job: the row inserted, whatever job_data carries.
NewJobRow(customer_id) ==
    [ customer_id |-> customer_id,
      engineer_id |-> NULL,
      status |-> "PENDING_ASSIGNMENT",
      payment_status |-> "PENDING",
      estimated_cost |-> NULL,
      final_cost |-> NULL,
      customer_consent_for_lab |-> FALSE,
      engineer_notes |-> << >>,
      admin_notes |-> << >>,
      cancellation_reason |-> NULL ]

\* db.commit() of a modified RepairJob object: the session writes the columns
\* whose value differs from the value it loaded, and leaves the others as
\* stored.  `loaded` is the row as the request read it, `modified` the object
\* after the handler's assignments.
Flush(stored, loaded, modified) ==
    LET Col(col) == IF modified[col] # loaded[col] THEN modified[col] ELSE stored[col] IN
    [ customer_id |-> Col("customer_id"),
      engineer_id |-> Col("engineer_id"),
      status |-> Col("status"),
      payment_status |-> Col("payment_status"),
      estimated_cost |-> Col("estimated_cost"),
      final_cost |-> Col("final_cost"),
      customer_consent_for_lab |-> Col("customer_consent_for_lab"),
      engineer_notes |-> Col("engineer_notes"),
      admin_notes |-> Col("admin_notes"),
      cancellation_reason |-> Col("cancellation_reason") ]

\* Mutant of record_status_update: the latest row of the job is overwritten.
record_status_update_Overwrite(table, job_id, previous_status, new_status, user_id) ==
    LET row == [ job_id |-> job_id,
                 user_id |-> user_id,
                 previous_status |-> IF previous_status = NULL THEN new_status
                                     ELSE previous_status,
                 new_status |-> new_status ]
    IN  IF Len(table) > 0 /\ table[Len(table)].job_id = job_id
        THEN [ table EXCEPT ![Len(table)] = row ]
        ELSE Append(table, row)

\* Mutant of record_status_update: every row is written as the code writes
\* the row of an initial status, with the new status as the previous one.
record_status_update_SamePrevious(table, job_id, previous_status, new_status, user_id) ==
    Append(table,
           [ job_id |-> job_id,
             user_id |-> user_id,
             previous_status |-> new_status,
             new_status |-> new_status ])

\* crud_job.record_status_update: the table with the new row appended.  A row
\* of the model keeps job_id, user_id, previous_status and new_status; the
\* columns notes and timestamp of the row are left out.
record_status_update(table, job_id, previous_status, new_status, user_id) ==
    Append(table,
           [ job_id |-> job_id,
             user_id |-> user_id,
             previous_status |-> IF previous_status = NULL THEN new_status ELSE previous_status,
             new_status |-> new_status ])

\* The note fields: "[timestamp] notes" appended on a new line; the model keeps
\* the entries as a sequence.
AppendNote(field, notes) == Append(field, notes)

NotesCount(job) == Len(job.engineer_notes) + Len(job.admin_notes)

NoopRows == { i \in DOMAIN job_status_updates :
                 job_status_updates[i].previous_status = job_status_updates[i].new_status }

\* The initial row crud_job.create_job adds to job_status_updates.
InitialStatusUpdate(job_id, customer_id) ==
    [ job_id |-> job_id, user_id |-> customer_id,
      previous_status |-> NULL, new_status |-> "PENDING_ASSIGNMENT" ]

\* crud_job.create_job
crud_create_job(customer_id) ==
    LET job_id == Len(repair_jobs) + 1 IN
    /\ job_id \in JobIds
    /\ Len(job_status_updates) < MaxHistory
    /\ repair_jobs' = Append(repair_jobs, NewJobRow(customer_id))
    /\ job_status_updates' = Append(job_status_updates, InitialStatusUpdate(job_id, customer_id))

\* The RepairJob object after crud_job.update_job_status has set the status,
\* applied extra_updates and appended the notes.
StatusUpdatedRow(job, new_status, user_id, notes, consent_update) ==
    LET j1 == [ job EXCEPT !.status = new_status ]
        j2 == IF consent_update = NULL THEN j1
              ELSE [ j1 EXCEPT !.customer_consent_for_lab = (consent_update = "true") ]
    IN  IF ~Truthy(notes) THEN j2
        ELSE IF role_of(user_id) = "ENGINEER"
             THEN [ j2 EXCEPT !.engineer_notes = AppendNote(@, notes) ]
             ELSE [ j2 EXCEPT !.admin_notes = AppendNote(@, notes) ]

\* crud_job.update_job_status
crud_update_job_status(job_id, new_status, user_id, notes, consent_update) ==
    LET job == repair_jobs[job_id] IN
    /\ Len(job_status_updates) < MaxHistory
    /\ new_status = job.status => Cardinality(NoopRows) < MaxNoop
    /\ Truthy(notes) => NotesCount(job) < MaxNotes
    /\ repair_jobs' =
           [ repair_jobs EXCEPT
               ![job_id] = Flush(@, job, StatusUpdatedRow(job, new_status, user_id, notes,
                                                          consent_update)) ]
    /\ job_status_updates' =
           record_status_update(job_status_updates, job_id, job.status, new_status, user_id)

\* The RepairJob object after crud_job.cancel_job's assignments.
CancelledRow(job, reason) ==
    [ job EXCEPT !.status = "CANCELLED", !.cancellation_reason = reason ]

\* crud_job.cancel_job
crud_cancel_job(job_id, user_id, reason) ==
    LET job == repair_jobs[job_id] IN
    /\ Len(job_status_updates) < MaxHistory
    /\ repair_jobs' = [ repair_jobs EXCEPT ![job_id] = Flush(@, job, CancelledRow(job, reason)) ]
    /\ job_status_updates' =
           record_status_update(job_status_updates, job_id, job.status, "CANCELLED", user_id)

\* The status crud_job.assign_engineer leaves the job in.
AssignedStatus(status, engineer_id) ==
    IF Truthy(engineer_id) /\ status = "PENDING_ASSIGNMENT" THEN "ASSIGNED"
    ELSE IF ~Truthy(engineer_id) /\ status = "ASSIGNED" THEN "PENDING_ASSIGNMENT"
    ELSE status

\* The RepairJob object after crud_job.assign_engineer's assignments.
AssignedRow(job, engineer_id) ==
    [ job EXCEPT !.engineer_id = engineer_id, !.status = AssignedStatus(job.status, engineer_id) ]

\* crud_job.assign_engineer
crud_assign_engineer(job_id, engineer_id, admin_id) ==
    LET job == repair_jobs[job_id]
        committed == Flush(job, job, AssignedRow(job, engineer_id))
    IN
    /\ committed.status # job.status => Len(job_status_updates) < MaxHistory
    /\ repair_jobs' = [ repair_jobs EXCEPT ![job_id] = committed ]
    /\ job_status_updates' =
           IF committed.status # job.status
           THEN record_status_update(job_status_updates, job_id, job.status, committed.status,
                                     admin_id)
           ELSE job_status_updates

(***************************************************************************)
(* api/v1/endpoints/jobs.py: the request handlers, one request at a time.  *)
(* Every handler answers; a rejection (HTTPException) is raised before the *)
(* crud layer is called.                                                   *)
(***************************************************************************)
Respond(r) == response' = r

\* Mutant of Reject: the handler logs the refused attempt in the audit table.
Reject_AuditsAttempt(r) ==
    /\ Respond(r)
    /\ UNCHANGED repair_jobs
    /\ job_status_updates' =
           IF r.code = 422 /\ JobExists(1) /\ Len(job_status_updates) < MaxHistory
           THEN record_status_update(job_status_updates, 1, repair_jobs[1].status,
                                     repair_jobs[1].status, NULL)
           ELSE job_status_updates

\* raise HTTPException(...): the response, and no table is written.
Reject(r) ==
    /\ Respond(r)
    /\ UNCHANGED << repair_jobs, job_status_updates >>

\* Mutant of StatusUpdateCheck: the consent gate comes before the validator.
StatusUpdateCheck_ConsentFirst(current_user, job_id, status) ==
    IF role_of(current_user) \notin { "ENGINEER", "ADMIN" } THEN Forbidden
    ELSE IF ~JobExists(job_id) THEN NotFound
    ELSE IF role_of(current_user) = "ENGINEER" /\ repair_jobs[job_id].engineer_id # current_user
         THEN Forbidden
    ELSE IF status \in { "IN_TRANSIT_TO_LAB" } /\ ~repair_jobs[job_id].customer_consent_for_lab
         THEN ConsentRequired
    ELSE IF ~is_transition_allowed(repair_jobs[job_id].status, status, role_of(current_user))
         THEN InvalidTransition
    ELSE OK

\* Mutant of StatusUpdateCheck: the consent gate is missing.
StatusUpdateCheck_NoConsentGate(current_user, job_id, status) ==
    IF role_of(current_user) \notin { "ENGINEER", "ADMIN" } THEN Forbidden
    ELSE IF ~JobExists(job_id) THEN NotFound
    ELSE IF role_of(current_user) = "ENGINEER" /\ repair_jobs[job_id].engineer_id # current_user
         THEN Forbidden
    ELSE IF ~is_transition_allowed(repair_jobs[job_id].status, status, role_of(current_user))
         THEN InvalidTransition
    ELSE OK

\* The checks of the status endpoint before it calls the crud layer: the
\* rejection it raises, or OK.
StatusUpdateCheck(current_user, job_id, status) ==
    IF role_of(current_user) \notin { "ENGINEER", "ADMIN" } THEN Forbidden
    ELSE IF ~JobExists(job_id) THEN NotFound
    ELSE IF role_of(current_user) = "ENGINEER" /\ repair_jobs[job_id].engineer_id # current_user
         THEN Forbidden
    ELSE IF ~is_transition_allowed(repair_jobs[job_id].status, status, role_of(current_user))
         THEN InvalidTransition
    ELSE IF status \in { "IN_TRANSIT_TO_LAB" } /\ ~repair_jobs[job_id].customer_consent_for_lab
         THEN ConsentRequired
    ELSE OK

\* Mutant of ExtraConsent: the flag of the request is applied whatever the
\* target.
ExtraConsent_AnyTarget(status, customer_consent_for_lab) == customer_consent_for_lab

\* extra_updates["customer_consent_for_lab"] as the status endpoint prepares
\* it: the flag of the request for a lab-bound target, else absent (NULL).
ExtraConsent(status, customer_consent_for_lab) ==
    IF customer_consent_for_lab # NULL /\ status \in { "PENDING_PICKUP_FOR_LAB", "ESCALATED_TO_LAB" }
    THEN customer_consent_for_lab
    ELSE NULL

\* POST /jobs
create_job(current_user) ==
    /\ UNCHANGED << vcall, ratings, req >>
    /\ IF role_of(current_user) # "CUSTOMER"
       THEN Reject(Forbidden)
       ELSE /\ crud_create_job(current_user)
            /\ Respond(Created)

\* PATCH /jobs/{job_id}/status
update_job_status(current_user, job_id, status, notes, customer_consent_for_lab) ==
    LET check == StatusUpdateCheck(current_user, job_id, status) IN
    /\ UNCHANGED << vcall, ratings, req >>
    /\ IF check # OK
       THEN Reject(check)
       ELSE /\ crud_update_job_status(job_id, status, current_user, notes,
                                      ExtraConsent(status, customer_consent_for_lab))
            /\ Respond(OK)

\* Mutant of CancelCheck: the refusal of engineers is missing.
CancelCheck_EngineerAllowed(current_user, job_id) ==
    IF ~JobExists(job_id) THEN NotFound
    ELSE IF role_of(current_user) = "CUSTOMER" /\ repair_jobs[job_id].customer_id # current_user
         THEN Forbidden
    ELSE IF repair_jobs[job_id].status \in { "COMPLETED", "CANCELLED" } THEN NotCancellable
    ELSE OK

\* The checks of the cancel endpoint before it calls the crud layer.
CancelCheck(current_user, job_id) ==
    IF ~JobExists(job_id) THEN NotFound
    ELSE IF role_of(current_user) = "CUSTOMER" /\ repair_jobs[job_id].customer_id # current_user
         THEN Forbidden
    ELSE IF role_of(current_user) = "ENGINEER" THEN Forbidden
    ELSE IF repair_jobs[job_id].status \in { "COMPLETED", "CANCELLED" } THEN NotCancellable
    ELSE OK

\* POST /jobs/{job_id}/cancel
cancel_job(current_user, job_id) ==
    LET check == CancelCheck(current_user, job_id) IN
    /\ UNCHANGED << vcall, ratings, req >>
    /\ IF check # OK
       THEN Reject(check)
       ELSE /\ crud_cancel_job(job_id, current_user, "reason")
            /\ Respond(OK)

\* The checks of the assign endpoint (require_admin included) before it
\* calls the crud layer.
AssignCheck(current_user, job_id, engineer_id) ==
    IF role_of(current_user) # "ADMIN" THEN Forbidden
    ELSE IF ~JobExists(job_id) THEN NotFound
    ELSE IF repair_jobs[job_id].status \in { "COMPLETED", "CANCELLED" } THEN NotAssignable
    ELSE IF Truthy(engineer_id) /\ engineer_id \notin Users THEN NotFound
    ELSE IF Truthy(engineer_id) /\ role_of(engineer_id) # "ENGINEER" THEN NotEngineer
    ELSE OK

\* PATCH /jobs/{job_id}/assign
assign_engineer_to_job(current_user, job_id, engineer_id) ==
    LET check == AssignCheck(current_user, job_id, engineer_id) IN
    /\ UNCHANGED << vcall, ratings, req >>
    /\ IF check # OK
       THEN Reject(check)
       ELSE /\ crud_assign_engineer(job_id, engineer_id, current_user)
            /\ Respond(OK)

Init ==
    /\ vcall = NoCall
    /\ repair_jobs = << >>
    /\ job_status_updates = << >>
    /\ ratings = << >>
    /\ response = NoResponse
    /\ req = [ r \in Reqs |-> IdleReq ]

\* The service, one request at a time; the status requests carry no notes.
Next ==
    \/ \E u \in CreateRequesters : create_job(u)
    \/ \E u \in StatusRequesters, j \in JobIdInputs, s \in JobStatus, c \in SerialConsentInputs :
          update_job_status(u, j, s, NULL, c)
    \/ \E u \in CancelRequesters, j \in JobIdInputs : cancel_job(u, j)
    \/ \E u \in AssignRequesters, j \in JobIdInputs, e \in EngineerIdInputs :
          assign_engineer_to_job(u, j, e)

Spec == Init /\ [][Next]_vars

(***************************************************************************)
(* Notes, quote, payment and rating: crud_job.py, crud_rating.py and their *)
(* endpoints, one request at a time.                                       *)
(***************************************************************************)
PaymentStatus == { "NOT_APPLICABLE", "PENDING", "COMPLETED", "REFUNDED", "FAILED" }

\* The statuses in which update_job_quote accepts each cost field.
EstimatedCostStatuses ==
    { "LAB_DIAGNOSIS", "ON_SITE_DIAGNOSIS", "PENDING_QUOTE_APPROVAL",
      "REPAIR_IN_PROGRESS_LAB", "REPAIR_IN_PROGRESS_ON_SITE" }
FinalCostStatuses ==
    { "COMPLETED", "PENDING_PAYMENT", "REPAIR_IN_PROGRESS_LAB", "REPAIR_IN_PROGRESS_ON_SITE",
      "PENDING_RETURN_DELIVERY", "IN_TRANSIT_FROM_LAB" }

\* The RepairJob object after crud_job.add_job_notes has appended the notes
\* to the field of the user's role.
NotedRow(job, user_id, notes) ==
    IF role_of(user_id) = "ENGINEER"
    THEN [ job EXCEPT !.engineer_notes = AppendNote(@, notes) ]
    ELSE [ job EXCEPT !.admin_notes = AppendNote(@, notes) ]

\* The RepairJob object after crud_job.update_job_quote's assignments (and
\* add_job_notes' when notes are given).
QuotedRow(job, user_id, estimated_cost, final_cost, notes) ==
    LET j1 == IF estimated_cost # NULL THEN [ job EXCEPT !.estimated_cost = estimated_cost ]
              ELSE job
        j2 == IF final_cost # NULL THEN [ j1 EXCEPT !.final_cost = final_cost ] ELSE j1
    IN  IF Truthy(notes) THEN NotedRow(j2, user_id, notes) ELSE j2

\* The RepairJob object after crud_job.update_payment_status's assignments.
PaidRow(job, user_id, payment_status, notes) ==
    LET j1 == [ job EXCEPT !.payment_status = payment_status ] IN
    IF Truthy(notes) THEN NotedRow(j1, user_id, notes) ELSE j1

\* crud_job.add_job_notes, called with notes that are not empty
crud_add_job_notes(job_id, user_id, notes) ==
    LET job == repair_jobs[job_id] IN
    /\ NotesCount(job) < MaxNotes
    /\ repair_jobs' = [ repair_jobs EXCEPT ![job_id] = Flush(@, job, NotedRow(job, user_id, notes)) ]
    /\ UNCHANGED << job_status_updates, ratings >>

\* crud_job.update_job_quote
crud_update_job_quote(job_id, user_id, estimated_cost, final_cost, notes) ==
    LET job == repair_jobs[job_id] IN
    /\ Truthy(notes) => NotesCount(job) < MaxNotes
    /\ repair_jobs' =
           [ repair_jobs EXCEPT
               ![job_id] = Flush(@, job, QuotedRow(job, user_id, estimated_cost, final_cost,
                                                   notes)) ]
    /\ UNCHANGED << job_status_updates, ratings >>

\* crud_job.update_payment_status
crud_update_payment_status(job_id, payment_status, user_id, notes) ==
    LET job == repair_jobs[job_id] IN
    /\ Truthy(notes) => NotesCount(job) < MaxNotes
    /\ repair_jobs' =
           [ repair_jobs EXCEPT
               ![job_id] = Flush(@, job, PaidRow(job, user_id, payment_status, notes)) ]
    /\ UNCHANGED << job_status_updates, ratings >>

\* The row crud_rating.create_rating adds to ratings; the columns score,
\* comment and created_at are left out.
RatingRow(job_id, customer_id, engineer_id) ==
    [ job_id |-> job_id, customer_id |-> customer_id, engineer_id |-> engineer_id ]

\* crud_rating.get_job_rating: whether the job has a rating.
HasRating(job_id) == \E i \in DOMAIN ratings : ratings[i].job_id = job_id

\* crud_rating.create_rating
crud_create_rating(job_id, customer_id) ==
    /\ ratings' = Append(ratings, RatingRow(job_id, customer_id,
                                            repair_jobs[job_id].engineer_id))
    /\ UNCHANGED << repair_jobs, job_status_updates >>

\* The checks that the notes, quote and payment endpoints share: the role,
\* the job and the engineer's assignment.
StaffCheck(current_user, job_id) ==
    IF role_of(current_user) \notin { "ENGINEER", "ADMIN" } THEN Forbidden
    ELSE IF ~JobExists(job_id) THEN NotFound
    ELSE IF role_of(current_user) = "ENGINEER" /\ repair_jobs[job_id].engineer_id # current_user
         THEN Forbidden
    ELSE OK

\* POST /jobs/{job_id}/notes.  With empty notes the crud function returns
\* None before it writes, and the response model refuses None.
add_job_notes(current_user, job_id, notes) ==
    LET check == StaffCheck(current_user, job_id) IN
    /\ UNCHANGED << vcall, req >>
    /\ IF check # OK
       THEN Reject(check) /\ UNCHANGED ratings
       ELSE IF ~Truthy(notes)
            THEN Reject(ServerError) /\ UNCHANGED ratings
            ELSE /\ crud_add_job_notes(job_id, current_user, notes)
                 /\ Respond(OK)

\* The checks of the quote endpoint before it calls the crud layer.
QuoteCheck(current_user, job_id, estimated_cost, final_cost) ==
    IF StaffCheck(current_user, job_id) # OK THEN StaffCheck(current_user, job_id)
    ELSE IF estimated_cost # NULL /\ repair_jobs[job_id].status \notin EstimatedCostStatuses
         THEN EstimateNotAllowed
    ELSE IF final_cost # NULL /\ repair_jobs[job_id].status \notin FinalCostStatuses
         THEN FinalCostNotAllowed
    ELSE OK

\* PATCH /jobs/{job_id}/quote
update_job_quote(current_user, job_id, estimated_cost, final_cost, notes) ==
    LET check == QuoteCheck(current_user, job_id, estimated_cost, final_cost) IN
    /\ UNCHANGED << vcall, req >>
    /\ IF check # OK
       THEN Reject(check) /\ UNCHANGED ratings
       ELSE /\ crud_update_job_quote(job_id, current_user, estimated_cost, final_cost, notes)
            /\ Respond(OK)

\* The checks of the payment endpoint before it calls the crud layer.
PaymentCheck(current_user, job_id) ==
    IF StaffCheck(current_user, job_id) # OK THEN StaffCheck(current_user, job_id)
    ELSE IF repair_jobs[job_id].status \notin { "PENDING_PAYMENT", "COMPLETED" }
         THEN PaymentNotAllowed
    ELSE OK

\* PATCH /jobs/{job_id}/payment
update_payment_status(current_user, job_id, payment_status, notes) ==
    LET check == PaymentCheck(current_user, job_id) IN
    /\ UNCHANGED << vcall, req >>
    /\ IF check # OK
       THEN Reject(check) /\ UNCHANGED ratings
       ELSE /\ crud_update_payment_status(job_id, payment_status, current_user, notes)
            /\ Respond(OK)

\* The checks of the rating endpoint before it calls the crud layer.
RatingCheck(current_user, job_id) ==
    IF role_of(current_user) # "CUSTOMER" THEN Forbidden
    ELSE IF ~JobExists(job_id) THEN NotFound
    ELSE IF repair_jobs[job_id].customer_id # current_user THEN Forbidden
    ELSE IF repair_jobs[job_id].status # "COMPLETED" THEN NotCompleted
    ELSE IF HasRating(job_id) THEN AlreadyRated
    ELSE OK

\* POST /jobs/{job_id}/ratings
create_rating(current_user, job_id) ==
    LET check == RatingCheck(current_user, job_id) IN
    /\ UNCHANGED << vcall, req >>
    /\ IF check # OK
       THEN Reject(check) /\ UNCHANGED ratings
       ELSE /\ crud_create_rating(job_id, current_user)
            /\ Respond(Created)

\* The requests of the whole service on the on-site path to completion: the
\* requesters, the targets and the values the requests carry.
OpsStaff == { "a1", "e1" }
OpsTargets == { "PENDING_VISIT", "PENDING_PICKUP_FOR_LAB", "ON_SITE_DIAGNOSIS",
                "REPAIR_IN_PROGRESS_ON_SITE", "PENDING_PAYMENT", "COMPLETED" }
OpsCancelRequesters == { "c1" }
OpsEngineerIdInputs == { "e1" }
NotesTextInputs == { "", "note" }
CostInputs == { NULL, "0.0", "100.0" }
PaymentInputs == { "COMPLETED" }
RatingRequesters == { "c1", "c2", "e1" }

NextOps ==
    \/ \E u \in { "c1" } : create_job(u)
    \/ \E u \in Admins, j \in JobIdInputs, s \in OpsTargets, c \in ConsentInputs :
          update_job_status(u, j, s, NULL, c)
    \/ \E u \in OpsCancelRequesters, j \in JobIdInputs : cancel_job(u, j)
    \/ \E u \in Admins, j \in JobIdInputs, e \in OpsEngineerIdInputs :
          assign_engineer_to_job(u, j, e)
    \/ \E u \in OpsStaff, j \in JobIdInputs, n \in NotesTextInputs : add_job_notes(u, j, n)
    \/ \E u \in OpsStaff, j \in JobIdInputs, ec \in CostInputs, fc \in CostInputs,
          n \in NoteInputs :
          update_job_quote(u, j, ec, fc, n)
    \/ \E u \in OpsStaff, j \in JobIdInputs, p \in PaymentInputs, n \in NoteInputs :
          update_payment_status(u, j, p, n)
    \/ \E u \in RatingRequesters, j \in JobIdInputs : create_rating(u, j)

SpecOps == Init /\ [][NextOps]_vars

\* The status requests that carry notes and a consent flag, on the path to the
\* lab: the requesters, the targets and the engineers assigned there.
NotesRequesters == { "a1", "e1" }
NotesTargets == { "ASSIGNED", "PENDING_PICKUP_FOR_LAB", "IN_TRANSIT_TO_LAB", "COMPLETED" }
NotesEngineers == { "e1" }

NextNotes ==
    \/ \E u \in { "c1" } : create_job(u)
    \/ \E u \in NotesRequesters, j \in JobIdInputs, s \in NotesTargets,
          n \in NoteInputs, c \in ConsentInputs :
          update_job_status(u, j, s, n, c)
    \/ \E u \in Admins, j \in JobIdInputs, e \in NotesEngineers :
          assign_engineer_to_job(u, j, e)

SpecNotes == Init /\ [][NextNotes]_vars

(***************************************************************************)
(* The service with requests in flight together (one worker process and    *)
(* one database session per request).  A handler reads the job once: the   *)
(* session keeps the loaded object, and crud_job.get_job returns that same *)
(* object.  The handler's steps on the database are then                   *)
(*   begin_*:              the reads, the checks and the assignments to    *)
(*                         the loaded object (or the HTTPException);       *)
(*   commit_job:           db.commit() of the modified object;             *)
(*   refresh_job:          db.refresh(db_job), where assign_engineer reads *)
(*                         the status back;                                *)
(*   commit_status_update: record_status_update's insert and commit;       *)
(*   fail_status_update:   the worker process stops after the job was      *)
(*                         committed and before that insert; it stays      *)
(*                         down, and its request gets no response.         *)
(***************************************************************************)
ConcStatusRequesters == { "a1" }
ConcCancelRequesters == { "c1" }
ConcTargets == { "ASSIGNED", "PENDING_PICKUP_FOR_LAB", "IN_TRANSIT_TO_LAB" }
ConcEngineerIdInputs == { "e1" }

InFlight == { r \in Reqs : req[r].pc # "idle" }

\* The worker that takes a new request: the first one that is free.
Free(r) == req[r].pc = "idle" /\ (r = "r2" => req["r1"].pc # "idle")

\* Cap on the requests accepted while requests interleave: the audit rows
\* written plus the requests in flight or stopped.
MaxAccepted == 6

HistoryRoom == Len(job_status_updates) + Cardinality(InFlight) < MaxAccepted

\* A request that holds the loaded job and the object as modified.
Started(op, user, job_id, loaded, modified) ==
    [ pc |-> "write", op |-> op, user |-> user, job_id |-> job_id,
      loaded |-> loaded, modified |-> modified, refreshed_status |-> modified.status ]

\* The handler raised before any write: the request is over.
Refuse(r, check) ==
    /\ response' = check
    /\ UNCHANGED << vcall, ratings, repair_jobs, job_status_updates, req >>

\* POST /jobs: the job row is inserted and committed, the initial audit row
\* is still to come.
begin_create_job(r, current_user) ==
    /\ Free(r)
    /\ IF role_of(current_user) # "CUSTOMER"
       THEN Refuse(r, Forbidden)
       ELSE LET job_id == Len(repair_jobs) + 1 IN
            /\ job_id \in JobIds
            /\ HistoryRoom
            /\ repair_jobs' = Append(repair_jobs, NewJobRow(current_user))
            /\ req' = [ req EXCEPT ![r] =
                          [ Started("create_job", current_user, job_id,
                                    NewJobRow(current_user), NewJobRow(current_user))
                            EXCEPT !.pc = "audit" ] ]
            /\ UNCHANGED << vcall, ratings, job_status_updates, response >>

\* PATCH /jobs/{job_id}/status up to db.commit().
begin_update_job_status(r, current_user, job_id, status, notes, customer_consent_for_lab) ==
    LET check == StatusUpdateCheck(current_user, job_id, status) IN
    /\ Free(r)
    /\ IF check # OK
       THEN Refuse(r, check)
       ELSE LET job == repair_jobs[job_id] IN
            /\ HistoryRoom
            /\ status = job.status => Cardinality(NoopRows) < MaxNoop
            /\ Truthy(notes) => NotesCount(job) < MaxNotes
            /\ req' = [ req EXCEPT ![r] =
                          Started("update_job_status", current_user, job_id, job,
                                  StatusUpdatedRow(job, status, current_user, notes,
                                                   ExtraConsent(status, customer_consent_for_lab))) ]
            /\ UNCHANGED << vcall, ratings, repair_jobs, job_status_updates, response >>

\* POST /jobs/{job_id}/cancel up to db.commit().
begin_cancel_job(r, current_user, job_id) ==
    LET check == CancelCheck(current_user, job_id) IN
    /\ Free(r)
    /\ IF check # OK
       THEN Refuse(r, check)
       ELSE LET job == repair_jobs[job_id] IN
            /\ HistoryRoom
            /\ req' = [ req EXCEPT ![r] =
                          Started("cancel_job", current_user, job_id, job,
                                  CancelledRow(job, "reason")) ]
            /\ UNCHANGED << vcall, ratings, repair_jobs, job_status_updates, response >>

\* PATCH /jobs/{job_id}/assign up to db.commit().
begin_assign_engineer(r, current_user, job_id, engineer_id) ==
    LET check == AssignCheck(current_user, job_id, engineer_id) IN
    /\ Free(r)
    /\ IF check # OK
       THEN Refuse(r, check)
       ELSE LET job == repair_jobs[job_id] IN
            /\ HistoryRoom
            /\ req' = [ req EXCEPT ![r] =
                          Started("assign_engineer", current_user, job_id, job,
                                  AssignedRow(job, engineer_id)) ]
            /\ UNCHANGED << vcall, ratings, repair_jobs, job_status_updates, response >>

\* PATCH /jobs/{job_id}/quote up to db.commit().
begin_update_job_quote(r, current_user, job_id, estimated_cost, final_cost, notes) ==
    LET check == QuoteCheck(current_user, job_id, estimated_cost, final_cost) IN
    /\ Free(r)
    /\ IF check # OK
       THEN Refuse(r, check)
       ELSE LET job == repair_jobs[job_id] IN
            /\ Truthy(notes) => NotesCount(job) < MaxNotes
            /\ req' = [ req EXCEPT ![r] =
                          Started("update_job_quote", current_user, job_id, job,
                                  QuotedRow(job, current_user, estimated_cost, final_cost,
                                            notes)) ]
            /\ UNCHANGED << vcall, ratings, repair_jobs, job_status_updates, response >>

\* PATCH /jobs/{job_id}/payment up to db.commit().
begin_update_payment_status(r, current_user, job_id, payment_status, notes) ==
    LET check == PaymentCheck(current_user, job_id) IN
    /\ Free(r)
    /\ IF check # OK
       THEN Refuse(r, check)
       ELSE LET job == repair_jobs[job_id] IN
            /\ Truthy(notes) => NotesCount(job) < MaxNotes
            /\ req' = [ req EXCEPT ![r] =
                          Started("update_payment_status", current_user, job_id, job,
                                  PaidRow(job, current_user, payment_status, notes)) ]
            /\ UNCHANGED << vcall, ratings, repair_jobs, job_status_updates, response >>

\* POST /jobs/{job_id}/ratings up to db.commit(): the job and its rating
\* have been read and checked.
begin_create_rating(r, current_user, job_id) ==
    LET check == RatingCheck(current_user, job_id) IN
    /\ Free(r)
    /\ IF check # OK
       THEN Refuse(r, check)
       ELSE LET job == repair_jobs[job_id] IN
            /\ req' = [ req EXCEPT ![r] =
                          [ Started("create_rating", current_user, job_id, job, job)
                            EXCEPT !.pc = "rate" ] ]
            /\ UNCHANGED << vcall, ratings, repair_jobs, job_status_updates, response >>

\* db.commit() in crud_rating.create_rating: the row is inserted with the
\* engineer of the job as loaded, unless the unique constraint on
\* ratings.job_id refuses it.
commit_rating(r) ==
    /\ req[r].pc = "rate"
    /\ IF HasRating(req[r].job_id)
       THEN /\ response' = ServerError
            /\ UNCHANGED ratings
       ELSE /\ ratings' = Append(ratings, RatingRow(req[r].job_id, req[r].user,
                                                    req[r].loaded.engineer_id))
            /\ response' = Created
    /\ req' = [ req EXCEPT ![r] = IdleReq ]
    /\ UNCHANGED << vcall, repair_jobs, job_status_updates >>

\* db.commit() in update_job_status, cancel_job, assign_engineer,
\* update_job_quote and update_payment_status; the quote and the payment
\* request answer after it.
commit_job(r) ==
    /\ req[r].pc = "write"
    /\ repair_jobs' = [ repair_jobs EXCEPT
                          ![req[r].job_id] = Flush(@, req[r].loaded, req[r].modified) ]
    /\ IF req[r].op \in { "update_job_quote", "update_payment_status" }
       THEN /\ req' = [ req EXCEPT ![r] = IdleReq ]
            /\ response' = OK
       ELSE /\ req' = [ req EXCEPT ![r].pc =
                           IF req[r].op = "assign_engineer" THEN "refresh" ELSE "audit" ]
            /\ UNCHANGED response
    /\ UNCHANGED << vcall, ratings, job_status_updates >>

\* db.refresh(db_job) in assign_engineer, and the comparison that follows:
\* no audit row when the status read back is the one loaded.
refresh_job(r) ==
    LET status == repair_jobs[req[r].job_id].status IN
    /\ req[r].pc = "refresh"
    /\ IF status # req[r].loaded.status
       THEN /\ req' = [ req EXCEPT ![r].pc = "audit", ![r].refreshed_status = status ]
            /\ UNCHANGED response
       ELSE /\ req' = [ req EXCEPT ![r] = IdleReq ]
            /\ response' = OK
    /\ UNCHANGED << vcall, ratings, repair_jobs, job_status_updates >>

\* The audit row of a request: create_job adds its own, the others call
\* record_status_update with the status they loaded.
AuditRowAdded(table, q) ==
    IF q.op = "create_job" THEN Append(table, InitialStatusUpdate(q.job_id, q.user))
    ELSE record_status_update(table, q.job_id, q.loaded.status,
                              IF q.op = "assign_engineer" THEN q.refreshed_status
                              ELSE q.modified.status,
                              q.user)

\* The second commit of a request, and its response.
commit_status_update(r) ==
    /\ req[r].pc = "audit"
    /\ job_status_updates' = AuditRowAdded(job_status_updates, req[r])
    /\ response' = IF req[r].op = "create_job" THEN Created ELSE OK
    /\ req' = [ req EXCEPT ![r] = IdleReq ]
    /\ UNCHANGED << vcall, ratings, repair_jobs >>

\* The second commit does not happen: the job keeps what the first wrote.
fail_status_update(r) ==
    /\ req[r].pc = "audit"
    /\ req' = [ req EXCEPT ![r] = StoppedReq ]
    /\ UNCHANGED << vcall, ratings, repair_jobs, job_status_updates, response >>

NextConc ==
    \/ \E r \in Reqs, u \in { "c1", "a1" } : begin_create_job(r, u)
    \/ \E r \in Reqs, u \in ConcStatusRequesters, j \in JobIdInputs, s \in ConcTargets,
          c \in ConsentInputs :
          begin_update_job_status(r, u, j, s, NULL, c)
    \/ \E r \in Reqs, u \in ConcCancelRequesters, j \in JobIdInputs : begin_cancel_job(r, u, j)
    \/ \E r \in Reqs, u \in Admins, j \in JobIdInputs, e \in ConcEngineerIdInputs :
          begin_assign_engineer(r, u, j, e)
    \/ \E r \in Reqs : commit_job(r)
    \/ \E r \in Reqs : refresh_job(r)
    \/ \E r \in Reqs : commit_status_update(r)
    \/ \E r \in Reqs : fail_status_update(r)

SpecConc == Init /\ [][NextConc]_vars

(***************************************************************************)
(* Claims about the service, one request at a time.                        *)
(***************************************************************************)
\* C5 -- Customer cancellation policy at the service level: no operation
\* invoked by a CUSTOMER (status update or cancel request) changes a job's
\* status to CANCELLED unless the job's status at that moment is one of
\* PENDING_ASSIGNMENT, ASSIGNED, PENDING_PICKUP_FOR_LAB, PENDING_VISIT,
\* PENDING_QUOTE_APPROVAL.
C5_CustomerCancellationPolicy ==
    [][ \A u \in Customers, j \in JobIdInputs :
          ( /\ JobExists(j)
            /\ \/ cancel_job(u, j)
               \/ \E s \in JobStatus, c \in ConsentInputs : update_job_status(u, j, s, NULL, c)
            /\ repair_jobs[j].status # "CANCELLED"
            /\ repair_jobs'[j].status = "CANCELLED" )
          => repair_jobs[j].status \in
                 { "PENDING_ASSIGNMENT", "ASSIGNED", "PENDING_PICKUP_FOR_LAB", "PENDING_VISIT",
                   "PENDING_QUOTE_APPROVAL" } ]_vars

\* C10 -- A rejected status update mutates nothing: when the validator denies
\* the transition or the consent gate fails, the job's status, consent flag,
\* notes and engineer_id are unchanged and no JobStatusUpdate row is written.
C10_RejectedUpdateMutatesNothing ==
    [][ \A u \in NotesRequesters, j \in JobIdInputs, s \in NotesTargets,
           n \in NoteInputs, c \in ConsentInputs :
          ( /\ update_job_status(u, j, s, n, c)
            /\ response' \in { InvalidTransition, ConsentRequired } )
          => UNCHANGED << repair_jobs, job_status_updates >> ]_vars

\* C10 witness: the assigned engineer's request on an ASSIGNED job that
\* already carries a note was refused as an invalid transition, and the
\* table holds the creation row and the assignment row only.
C10_Witness ==
    /\ response = InvalidTransition
    /\ JobExists(1)
    /\ repair_jobs[1].status = "ASSIGNED"
    /\ repair_jobs[1].engineer_id = "e1"
    /\ repair_jobs[1].admin_notes # << >>
    /\ Len(job_status_updates) = 2

(***************************************************************************)
(* Claims about the service with requests in flight together.              *)
(***************************************************************************)
\* C6 -- Terminal immutability of a job: once a job's status is COMPLETED or
\* CANCELLED, no status-update, cancel or assign-engineer request changes
\* its status again.
C6_TerminalImmutability ==
    [][ \A j \in DOMAIN repair_jobs :
          repair_jobs[j].status \in TerminalStatuses
          => repair_jobs'[j].status = repair_jobs[j].status ]_vars

\* C7 -- Per-job mutual exclusion of transitions: two status-changing
\* requests (status update or cancel) in flight on the same job, that read
\* the same source status and ask for different targets, cannot both
\* succeed: never have both committed their status write.
C7_MutualExclusion ==
    \A r \in Reqs, q \in Reqs :
        ( /\ r # q
          /\ req[r].pc = "audit" /\ req[r].op \in { "update_job_status", "cancel_job" }
          /\ req[q].pc = "audit" /\ req[q].op \in { "update_job_status", "cancel_job" }
          /\ req[r].job_id = req[q].job_id
          /\ req[r].loaded.status = req[q].loaded.status )
        => req[r].modified.status = req[q].modified.status

\* C8 -- Audit completeness: in no reachable state, a failure or an
\* interleaved request between the two steps included, has a job's status
\* been changed by an accepted transition without the matching audit row
\* being present: the status of a job is the new_status of its last audit
\* row, and a job without a row yet is in the status it was created in.
C8_AuditComplete ==
    \A j \in DOMAIN repair_jobs :
        LET rows == { i \in DOMAIN job_status_updates : job_status_updates[i].job_id = j } IN
        IF rows = {}
        THEN repair_jobs[j].status = "PENDING_ASSIGNMENT"
        ELSE \E i \in rows :
                /\ \A k \in rows : k <= i
                /\ job_status_updates[i].new_status = repair_jobs[j].status

\* C9 -- Consent gate: a status update to IN_TRANSIT_TO_LAB is rejected
\* unless the stored customer_consent_for_lab is already true, so no job
\* enters IN_TRANSIT_TO_LAB through the status endpoint while its stored
\* consent is false.
C9_ConsentGate ==
    [][ \A j \in DOMAIN repair_jobs :
          ( /\ repair_jobs[j].status # "IN_TRANSIT_TO_LAB"
            /\ repair_jobs'[j].status = "IN_TRANSIT_TO_LAB" )
          => /\ repair_jobs[j].customer_consent_for_lab
             /\ repair_jobs'[j].customer_consent_for_lab ]_vars

\* C11 -- Exactly one audit row per accepted transition: every change of a
\* job's status (status endpoint, cancel, or an assignment that flips the
\* status) appends exactly one JobStatusUpdate row for that job, whose
\* previous_status is the job's status immediately before the change and
\* whose new_status is the status written.
C11_OneRowPerTransition ==
    [][ \A j \in DOMAIN repair_jobs :
          repair_jobs'[j].status # repair_jobs[j].status
          => \E u \in Users :
                job_status_updates' =
                    Append(job_status_updates,
                           [ job_id |-> j,
                             user_id |-> u,
                             previous_status |-> repair_jobs[j].status,
                             new_status |-> repair_jobs'[j].status ]) ]_vars

\* C12 -- Same-status updates are idempotent no-ops at the service level: a
\* status update by an authorized engineer or admin whose target equals the
\* job's current status succeeds and leaves the job's status and its audit
\* history exactly as they were (no additional JobStatusUpdate row).
C12_SameStatusNoOp ==
    [][ \A u \in StatusRequesters, j \in JobIdInputs, s \in JobStatus, c \in ConsentInputs :
          ( /\ update_job_status(u, j, s, NULL, c)
            /\ JobExists(j)
            /\ role_of(u) \in { "ENGINEER", "ADMIN" }
            /\ role_of(u) = "ENGINEER" => repair_jobs[j].engineer_id = u
            /\ s = repair_jobs[j].status )
          => /\ response' = OK
             /\ repair_jobs'[j].status = repair_jobs[j].status
             /\ job_status_updates' = job_status_updates ]_vars

(***************************************************************************)
(* The interleaved service with requesters of every role, on the statuses  *)
(* around assignment and cancellation.                                     *)
(***************************************************************************)
RolesStatusRequesters == { "a1", "e1", "c1" }
RolesCancelRequesters == { "e1", "c1" }
RolesAssignRequesters == { "a1", "e1" }
RolesTargets == { "ASSIGNED", "CANCELLED" }
RolesEngineerIdInputs == { "e1" }

NextRoles ==
    \/ \E r \in Reqs, u \in { "c1", "e1" } : begin_create_job(r, u)
    \/ \E r \in Reqs, u \in RolesStatusRequesters, j \in JobIdInputs, s \in RolesTargets :
          begin_update_job_status(r, u, j, s, NULL, NULL)
    \/ \E r \in Reqs, u \in RolesCancelRequesters, j \in JobIdInputs : begin_cancel_job(r, u, j)
    \/ \E r \in Reqs, u \in RolesAssignRequesters, j \in JobIdInputs,
          e \in RolesEngineerIdInputs :
          begin_assign_engineer(r, u, j, e)
    \/ \E r \in Reqs : commit_job(r)
    \/ \E r \in Reqs : refresh_job(r)
    \/ \E r \in Reqs : commit_status_update(r)
    \/ \E r \in Reqs : fail_status_update(r)

SpecRoles == Init /\ [][NextRoles]_vars

(***************************************************************************)
(* Claims about the roles.                                                 *)
(***************************************************************************)
\* C13 -- Only the ADMIN role may move PENDING_ASSIGNMENT -> ASSIGNED:
\* is_transition_allowed(PENDING_ASSIGNMENT, ASSIGNED, role) is true for ADMIN
\* and false for ENGINEER, CUSTOMER and any unknown role, and no non-admin
\* operation of the service changes a job from PENDING_ASSIGNMENT to
\* ASSIGNED: every write that does is the commit of an admin's request.
C13_OnlyAdminAssigns ==
    /\ is_transition_allowed("PENDING_ASSIGNMENT", "ASSIGNED", "ADMIN")
    /\ \A role \in AnyRole \ { "ADMIN" } :
          ~is_transition_allowed("PENDING_ASSIGNMENT", "ASSIGNED", role)
    /\ [][ \A j \in DOMAIN repair_jobs :
             ( /\ repair_jobs[j].status = "PENDING_ASSIGNMENT"
               /\ repair_jobs'[j].status = "ASSIGNED" )
             => \E r \in Reqs : commit_job(r) /\ role_of(req[r].user) = "ADMIN" ]_vars

\* C13 witness: on a PENDING_ASSIGNMENT job a non-admin request was refused,
\* the engineer's status update to ASSIGNED and assignment are refused, and
\* an admin's update to ASSIGNED is about to commit.
C13_Witness ==
    /\ JobExists(1)
    /\ repair_jobs[1].status = "PENDING_ASSIGNMENT"
    /\ response = Forbidden
    /\ StatusUpdateCheck("e1", 1, "ASSIGNED") = Forbidden
    /\ AssignCheck("e1", 1, "e1") = Forbidden
    /\ \E r \in Reqs :
          /\ req[r].pc = "write"
          /\ role_of(req[r].user) = "ADMIN"
          /\ req[r].modified.status = "ASSIGNED"

\* C14 -- Engineers never cancel: for every status s other than CANCELLED,
\* is_transition_allowed(s, CANCELLED, ENGINEER) is false, and no request
\* made by an engineer (status update or cancel endpoint) changes a job's
\* status to CANCELLED: every write that does is the commit of a request of
\* another role.
C14_EngineersNeverCancel ==
    /\ \A s \in JobStatus \ { "CANCELLED" } : ~is_transition_allowed(s, "CANCELLED", "ENGINEER")
    /\ [][ \A j \in DOMAIN repair_jobs :
             ( /\ repair_jobs[j].status # "CANCELLED"
               /\ repair_jobs'[j].status = "CANCELLED" )
             => \E r \in Reqs : commit_job(r) /\ role_of(req[r].user) # "ENGINEER" ]_vars

\* C14 witness: the engineer assigned to an ASSIGNED job asked the status
\* endpoint for CANCELLED and was refused, and the cancel endpoint refuses
\* the same engineer.
C14_Witness ==
    /\ JobExists(1)
    /\ repair_jobs[1].status = "ASSIGNED"
    /\ repair_jobs[1].engineer_id = "e1"
    /\ response = InvalidTransition
    /\ StatusUpdateCheck("e1", 1, "CANCELLED") = InvalidTransition
    /\ CancelCheck("e1", 1) = Forbidden

(***************************************************************************)
(* The interleaved service on the on-site path to the quote: the admin and *)
(* the assigned engineer move the job.                                     *)
(***************************************************************************)
QuoteStatusRequesters == { "a1", "e1" }
QuoteTargets ==
    { "ASSIGNED", "PENDING_VISIT", "ON_SITE_DIAGNOSIS", "PENDING_QUOTE_APPROVAL",
      "REPAIR_IN_PROGRESS_ON_SITE" }

NextQuote ==
    \/ \E r \in Reqs, u \in { "c1" } : begin_create_job(r, u)
    \/ \E r \in Reqs, u \in QuoteStatusRequesters, j \in JobIdInputs, s \in QuoteTargets :
          begin_update_job_status(r, u, j, s, NULL, NULL)
    \/ \E r \in Reqs, u \in Admins, j \in JobIdInputs : begin_assign_engineer(r, u, j, "e1")
    \/ \E r \in Reqs : commit_job(r)
    \/ \E r \in Reqs : refresh_job(r)
    \/ \E r \in Reqs : commit_status_update(r)

SpecQuote == Init /\ [][NextQuote]_vars

\* C15 -- An engineer has no outgoing transition from PENDING_ASSIGNMENT or
\* from PENDING_QUOTE_APPROVAL: get_allowed_transitions is empty for ENGINEER
\* in both statuses, so an engineer never by itself moves a job out of
\* PENDING_QUOTE_APPROVAL: every write that does is the commit of a request
\* of another role.
C15_EngineerCannotExitQuoteApproval ==
    /\ get_allowed_transitions("PENDING_ASSIGNMENT", "ENGINEER") = {}
    /\ get_allowed_transitions("PENDING_QUOTE_APPROVAL", "ENGINEER") = {}
    /\ [][ \A j \in DOMAIN repair_jobs :
             ( /\ repair_jobs[j].status = "PENDING_QUOTE_APPROVAL"
               /\ repair_jobs'[j].status # "PENDING_QUOTE_APPROVAL" )
             => \E r \in Reqs : commit_job(r) /\ role_of(req[r].user) # "ENGINEER" ]_vars

(***************************************************************************)
(* Claims about the tables of the validator (checked under SpecValidator). *)
(***************************************************************************)
\* C16 -- The customer's non-self transitions are exactly CANCELLED from each
\* of PENDING_ASSIGNMENT, ASSIGNED, PENDING_PICKUP_FOR_LAB, PENDING_VISIT and
\* PENDING_QUOTE_APPROVAL, plus PENDING_QUOTE_APPROVAL -> REPAIR_IN_PROGRESS_LAB
\* and PENDING_QUOTE_APPROVAL -> REPAIR_IN_PROGRESS_ON_SITE; every other pair
\* with current # target is denied for CUSTOMER.
C16_CustomerTransitionsExact ==
    LET expected ==
            ( { "PENDING_ASSIGNMENT", "ASSIGNED", "PENDING_PICKUP_FOR_LAB", "PENDING_VISIT",
                "PENDING_QUOTE_APPROVAL" } \X { "CANCELLED" } )
            \cup { << "PENDING_QUOTE_APPROVAL", "REPAIR_IN_PROGRESS_LAB" >>,
                   << "PENDING_QUOTE_APPROVAL", "REPAIR_IN_PROGRESS_ON_SITE" >> }
    IN  vcall.role = "CUSTOMER" =>
            /\ (vcall.is_done /\ vcall.target # vcall.current) =>
                   (vcall.allowed <=> << vcall.current, vcall.target >> \in expected)
            /\ vcall.get_done =>
                   vcall.next = { t \in JobStatus : << vcall.current, t >> \in expected }

\* C16 witness: a customer asked to cancel during the on-site diagnosis and
\* was denied, and the allowed set there came back empty.
C16_Witness ==
    /\ vcall.is_done /\ vcall.get_done
    /\ vcall.role = "CUSTOMER"
    /\ vcall.current = "ON_SITE_DIAGNOSIS" /\ vcall.target = "CANCELLED"
    /\ vcall.allowed = FALSE /\ vcall.next = {}

\* C17 -- Operators can always abort: for every status s other than COMPLETED
\* and CANCELLED, is_transition_allowed(s, CANCELLED, ADMIN) is true, so a
\* terminal status is among the admin's allowed targets from every
\* non-terminal status.
C17_AdminCanAlwaysAbort ==
    (vcall.role = "ADMIN" /\ vcall.current \notin TerminalStatuses) =>
        /\ (vcall.is_done /\ vcall.target = "CANCELLED") => vcall.allowed = TRUE
        /\ vcall.get_done => "CANCELLED" \in vcall.next

\* C17 witness: the admin asked to cancel a job in transit from the lab and
\* was allowed by both functions.
C17_Witness ==
    /\ vcall.is_done /\ vcall.get_done
    /\ vcall.role = "ADMIN"
    /\ vcall.current = "IN_TRANSIT_FROM_LAB" /\ vcall.target = "CANCELLED"
    /\ vcall.allowed = TRUE /\ "CANCELLED" \in vcall.next

\* C18 -- The admin table is a superset of the other roles: every pair
\* allowed for ENGINEER or for CUSTOMER by is_transition_allowed is also
\* allowed for ADMIN.
C18_AdminSuperset ==
    ( /\ vcall.is_done
      /\ vcall.role \in { "ENGINEER", "CUSTOMER" }
      /\ vcall.allowed = TRUE )
    => is_transition_allowed(vcall.current, vcall.target, "ADMIN")

\* C18 witness: a customer's quote approval was allowed, and the admin is
\* allowed the same pair.
C18_Witness ==
    /\ vcall.is_done
    /\ vcall.role = "CUSTOMER"
    /\ vcall.current = "PENDING_QUOTE_APPROVAL" /\ vcall.target = "REPAIR_IN_PROGRESS_ON_SITE"
    /\ vcall.allowed = TRUE
    /\ is_transition_allowed(vcall.current, vcall.target, "ADMIN")

\* C19 -- get_allowed_transitions never includes the current status: for
\* every role and every status s, s is not a member of
\* get_allowed_transitions(s, role).
C19_NoSelfLoopEnumerated ==
    vcall.get_done => vcall.current \notin vcall.next

\* C19 witness: the admin's allowed set of ASSIGNED came back non-empty and
\* without ASSIGNED.
C19_Witness ==
    /\ vcall.get_done
    /\ vcall.role = "ADMIN" /\ vcall.current = "ASSIGNED"
    /\ vcall.next # {}
    /\ "ASSIGNED" \notin vcall.next

\* C20 -- get_allowed_transitions(ON_SITE_DIAGNOSIS, ADMIN) is exactly the set
\* {REPAIR_IN_PROGRESS_ON_SITE, PENDING_QUOTE_APPROVAL, CANCELLED,
\* ESCALATED_TO_LAB}.
C20_AdminOnSiteDiagnosisExact ==
    (vcall.get_done /\ vcall.role = "ADMIN" /\ vcall.current = "ON_SITE_DIAGNOSIS") =>
        vcall.next = { "REPAIR_IN_PROGRESS_ON_SITE", "PENDING_QUOTE_APPROVAL", "CANCELLED",
                       "ESCALATED_TO_LAB" }

\* C20 witness: the call was made and returned four statuses, the escalation
\* to the lab among them.
C20_Witness ==
    /\ vcall.get_done
    /\ vcall.role = "ADMIN" /\ vcall.current = "ON_SITE_DIAGNOSIS"
    /\ Cardinality(vcall.next) = 4
    /\ "ESCALATED_TO_LAB" \in vcall.next

(***************************************************************************)
(* Claims about the workflow and the layered rules of the service.         *)
(***************************************************************************)
\* C21 -- The status workflow is acyclic: no sequence of allowed non-self
\* transitions brings a job back to a status it has already left.  A status
\* update that changes the status never enters a status that the audit
\* trail of the job shows it to have left before through a transition of
\* the role tables.
C21_WorkflowAcyclic ==
    [][ \A u \in StatusRequesters, j \in JobIdInputs, s \in JobStatus, c \in ConsentInputs :
          ( /\ JobExists(j)
            /\ update_job_status(u, j, s, NULL, c)
            /\ repair_jobs'[j].status # repair_jobs[j].status )
          => ~ \E i \in DOMAIN job_status_updates :
                 /\ job_status_updates[i].job_id = j
                 /\ job_status_updates[i].previous_status = repair_jobs'[j].status
                 /\ job_status_updates[i].new_status # repair_jobs'[j].status
                 /\ \E role \in UserRole :
                        is_transition_allowed(job_status_updates[i].previous_status,
                                              job_status_updates[i].new_status, role) ]_vars

\* C22 -- The consent-required rejection is raised only for a request whose
\* transition the validator accepts; a request that violates both the
\* transition rule and the consent rule is rejected as an invalid status
\* transition.
C22_ValidatorBeforeConsent ==
    [][ \A u \in NotesRequesters, j \in JobIdInputs, s \in NotesTargets,
           n \in NoteInputs, c \in ConsentInputs :
          ( /\ JobExists(j)
            /\ (role_of(u) = "ADMIN" \/ repair_jobs[j].engineer_id = u)
            /\ update_job_status(u, j, s, n, c) )
          => /\ response' = ConsentRequired
                  => /\ is_transition_allowed(repair_jobs[j].status, s, role_of(u))
                     /\ s = "IN_TRANSIT_TO_LAB"
                     /\ ~repair_jobs[j].customer_consent_for_lab
             /\ ~is_transition_allowed(repair_jobs[j].status, s, role_of(u))
                  => response' = InvalidTransition ]_vars

\* The consent-required rejection has been raised for a job waiting for its
\* pickup without the customer's consent.
C22_Witness ==
    /\ response = ConsentRequired
    /\ \E j \in DOMAIN repair_jobs :
          /\ repair_jobs[j].status = "PENDING_PICKUP_FOR_LAB"
          /\ ~repair_jobs[j].customer_consent_for_lab

\* C23 -- Frame of the consent flag: customer_consent_for_lab changes only
\* through an accepted status update whose target is PENDING_PICKUP_FOR_LAB
\* or ESCALATED_TO_LAB and which carries an explicit flag value; a flag on a
\* request with another target, and every other operation (cancel, assign,
\* notes, quote, payment, rating), leaves the stored flag unchanged.
C23_ConsentFrame ==
    [][ \A j \in DOMAIN repair_jobs :
          repair_jobs'[j].customer_consent_for_lab # repair_jobs[j].customer_consent_for_lab
          => \E u \in Admins, s \in { "PENDING_PICKUP_FOR_LAB", "ESCALATED_TO_LAB" },
                c \in ConsentInputs \ { NULL } :
                /\ update_job_status(u, j, s, NULL, c)
                /\ response' = OK
                /\ repair_jobs'[j].customer_consent_for_lab = (c = "true") ]_vars

\* The consent of a job has been recorded by the status update that sent it
\* to the pickup for the lab.
C23_Witness ==
    /\ response = OK
    /\ \E j \in DOMAIN repair_jobs :
          /\ repair_jobs[j].customer_consent_for_lab
          /\ repair_jobs[j].status = "PENDING_PICKUP_FOR_LAB"

(***************************************************************************)
(* The late stages of a job with requests in flight together: the status   *)
(* updates, the assignment and the creation run from their first read to   *)
(* their last commit without another request between, while a cancel, a    *)
(* quote or a rating request may be in flight beside them.                 *)
(***************************************************************************)
LateTargets == { "PENDING_VISIT", "ON_SITE_DIAGNOSIS", "REPAIR_IN_PROGRESS_ON_SITE",
                 "PENDING_PAYMENT", "COMPLETED" }
LateCancelRequesters == { "a1" }
LateQuoteRequesters == { "a1" }
LateRatingRequesters == { "c1", "c2" }
LateCostInputs == { NULL, "100.0" }

NextLate ==
    \/ \E u \in { "c1" } : create_job(u)
    \/ \E u \in Admins, j \in JobIdInputs, e \in OpsEngineerIdInputs :
          assign_engineer_to_job(u, j, e)
    \/ \E u \in Admins, j \in JobIdInputs, s \in LateTargets :
          update_job_status(u, j, s, NULL, NULL)
    \/ \E r \in Reqs, u \in LateCancelRequesters, j \in JobIdInputs : begin_cancel_job(r, u, j)
    \/ \E r \in Reqs, u \in LateQuoteRequesters, j \in JobIdInputs,
          ec \in LateCostInputs, fc \in LateCostInputs :
          begin_update_job_quote(r, u, j, ec, fc, NULL)
    \/ \E r \in Reqs, u \in LateRatingRequesters, j \in JobIdInputs :
          begin_create_rating(r, u, j)
    \/ \E r \in Reqs : commit_job(r)
    \/ \E r \in Reqs : commit_status_update(r)
    \/ \E r \in Reqs : commit_rating(r)

SpecLate == Init /\ [][NextLate]_vars

\* C24 -- Cost-field gating: a quote update is accepted only if, for each cost
\* field it supplies, the job's current status is in the allow-list of that
\* field; a rejected quote update changes neither cost field; and a quote
\* update never changes the job's status.  A cost field is written only
\* while the stored status is in its allow-list, by a step that leaves the
\* status as it is, and a request that is refused writes no table.
C24_CostGating ==
    [][ /\ \A j \in DOMAIN repair_jobs :
             /\ repair_jobs'[j].estimated_cost # repair_jobs[j].estimated_cost
                  => /\ repair_jobs[j].status \in EstimatedCostStatuses
                     /\ repair_jobs'[j].status = repair_jobs[j].status
             /\ repair_jobs'[j].final_cost # repair_jobs[j].final_cost
                  => /\ repair_jobs[j].status \in FinalCostStatuses
                     /\ repair_jobs'[j].status = repair_jobs[j].status
        /\ \A u \in LateQuoteRequesters, j \in JobIdInputs, ec \in CostInputs, fc \in CostInputs :
             ( /\ QuoteCheck(u, j, ec, fc) # OK
               /\ \/ update_job_quote(u, j, ec, fc, NULL)
                  \/ \E r \in Reqs : begin_update_job_quote(r, u, j, ec, fc, NULL) )
             => UNCHANGED << repair_jobs, job_status_updates, ratings >> ]_vars

\* C25 -- Every job is created in PENDING_ASSIGNMENT with payment_status
\* PENDING, and its creation writes exactly one initial JobStatusUpdate row,
\* with new_status PENDING_ASSIGNMENT and attributed to the creating
\* customer: a job whose creation is no longer in progress has exactly one
\* row without previous_status, and that row is of this form.
C25_CreatedPendingWithInitialRow ==
    [][ /\ Len(repair_jobs') > Len(repair_jobs)
             => /\ Len(repair_jobs') = Len(repair_jobs) + 1
                /\ repair_jobs'[Len(repair_jobs')].status = "PENDING_ASSIGNMENT"
                /\ repair_jobs'[Len(repair_jobs')].payment_status = "PENDING"
        /\ \A j \in DOMAIN repair_jobs' :
             ( ~ \E r \in Reqs : /\ req'[r].pc = "audit"
                                 /\ req'[r].op = "create_job"
                                 /\ req'[r].job_id = j )
             => \E i \in DOMAIN job_status_updates' :
                   /\ job_status_updates'[i] =
                          [ job_id |-> j, user_id |-> repair_jobs'[j].customer_id,
                            previous_status |-> NULL, new_status |-> "PENDING_ASSIGNMENT" ]
                   /\ \A k \in DOMAIN job_status_updates' :
                         ( /\ job_status_updates'[k].job_id = j
                           /\ job_status_updates'[k].previous_status = NULL )
                         => k = i ]_vars

\* C26 -- The audit trail is append-only: no operation of the service
\* (create, status update, cancel, assign, notes, quote, payment, rating)
\* modifies or deletes a JobStatusUpdate row that exists, and the number of
\* rows never decreases.
C26_AuditAppendOnly ==
    [][ /\ Len(job_status_updates') >= Len(job_status_updates)
        /\ \A i \in DOMAIN job_status_updates :
              job_status_updates'[i] = job_status_updates[i] ]_vars

\* A job with its audit trail has been completed, paid, annotated, quoted
\* and rated.
C26_Witness ==
    /\ Len(job_status_updates) >= 7
    /\ Len(ratings) = 1
    /\ \E j \in DOMAIN repair_jobs :
          /\ repair_jobs[j].payment_status = "COMPLETED"
          /\ repair_jobs[j].final_cost # NULL
          /\ NotesCount(repair_jobs[j]) > 0

\* C27 -- assign_engineer flips the status only between PENDING_ASSIGNMENT
\* and ASSIGNED: a non-null engineer on a PENDING_ASSIGNMENT job sets
\* ASSIGNED, a null engineer on an ASSIGNED job sets PENDING_ASSIGNMENT, in
\* every other case the status is unchanged; an audit row is written if and
\* only if the status changed; and the assignment is rejected for COMPLETED
\* or CANCELLED jobs.  Stated of the request served alone and of the write
\* and the end of a request in flight.
C27_AssignFlipsOnly ==
    [][ \A j \in DOMAIN repair_jobs :
          LET old == repair_jobs[j].status
              new == repair_jobs'[j].status
              e == repair_jobs'[j].engineer_id
              flipped == IF e # NULL /\ old = "PENDING_ASSIGNMENT" THEN "ASSIGNED"
                         ELSE IF e = NULL /\ old = "ASSIGNED" THEN "PENDING_ASSIGNMENT"
                         ELSE old
          IN
          /\ \A u \in AssignRequesters, x \in EngineerIdInputs :
                assign_engineer_to_job(u, j, x)
                => IF response' = OK
                   THEN /\ old \notin TerminalStatuses
                        /\ e = x
                        /\ new = flipped
                        /\ job_status_updates' =
                              IF new # old
                              THEN Append(job_status_updates,
                                          [ job_id |-> j, user_id |-> u,
                                            previous_status |-> old, new_status |-> new ])
                              ELSE job_status_updates
                   ELSE UNCHANGED << repair_jobs, job_status_updates >>
          /\ \A r \in Reqs :
                ( req[r].op = "assign_engineer" /\ req[r].job_id = j )
                => /\ commit_job(r)
                      => /\ old \notin TerminalStatuses
                         /\ new = flipped
                   /\ req'[r].pc \in { "idle", "stopped" }
                      => ( req[r].modified.status # req[r].loaded.status
                           <=> job_status_updates' =
                                  Append(job_status_updates,
                                         [ job_id |-> j, user_id |-> req[r].user,
                                           previous_status |-> req[r].loaded.status,
                                           new_status |-> req[r].modified.status ]) ) ]_vars

PipelineEngineers == { "e1", "e2" }

NextPipeline ==
    \/ \E u \in { "c1" } : create_job(u)
    \/ \E u \in Admins, j \in JobIdInputs, e \in OpsEngineerIdInputs :
          assign_engineer_to_job(u, j, e)
    \/ \E u \in PipelineEngineers, j \in JobIdInputs, s \in JobStatus, c \in ConsentInputs :
          update_job_status(u, j, s, NULL, c)

SpecPipeline == Init /\ [][NextPipeline]_vars

\* C29 -- The engineer owns the pipeline to completion: for a job in ASSIGNED
\* that is assigned to an engineer there is a sequence of status updates by
\* that engineer alone, each accepted by the service, that ends in
\* COMPLETED.  On every step of the on-site path (ASSIGNED, PENDING_VISIT,
\* ON_SITE_DIAGNOSIS, REPAIR_IN_PROGRESS_ON_SITE, PENDING_PAYMENT, COMPLETED)
\* the checks of the status endpoint accept the assigned engineer's request
\* for the next status of the path.
C29_EngineerOwnsPipeline ==
    \A j \in DOMAIN repair_jobs :
       LET job == repair_jobs[j]
           path == << "ASSIGNED", "PENDING_VISIT", "ON_SITE_DIAGNOSIS",
                      "REPAIR_IN_PROGRESS_ON_SITE", "PENDING_PAYMENT", "COMPLETED" >>
       IN  job.engineer_id \in Engineers
           => \A k \in 1 .. Len(path) - 1 :
                 job.status = path[k]
                 => StatusUpdateCheck(job.engineer_id, j, path[k + 1]) = OK

\* A job has been completed along the on-site path by its engineer alone:
\* after the initial row and the row of the assignment, the audit trail
\* holds the five rows of the path, all of them by the engineer.
C29_Witness ==
    \E j \in DOMAIN repair_jobs :
       /\ repair_jobs[j].status = "COMPLETED"
       /\ repair_jobs[j].engineer_id \in Engineers
       /\ Len(job_status_updates) = 7
       /\ job_status_updates[2].new_status = "ASSIGNED"
       /\ \A i \in 3 .. 7 : /\ job_status_updates[i].job_id = j
                            /\ job_status_updates[i].user_id = repair_jobs[j].engineer_id
       /\ job_status_updates[3].new_status = "PENDING_VISIT"
       /\ job_status_updates[4].new_status = "ON_SITE_DIAGNOSIS"
       /\ job_status_updates[5].new_status = "REPAIR_IN_PROGRESS_ON_SITE"
       /\ job_status_updates[6].new_status = "PENDING_PAYMENT"
       /\ job_status_updates[7].new_status = "COMPLETED"

(***************************************************************************)
(* Claims about the ratings.                                               *)
(***************************************************************************)
\* C30 -- Ratings are gated by the terminal COMPLETED status: a rating is
\* created only by the customer who owns the job and only while the job's
\* status is COMPLETED, and after any sequence of rating requests each job
\* has at most one rating.
C30_RatingsGated ==
    [][ /\ ratings' # ratings
             => /\ Len(ratings') = Len(ratings) + 1
                /\ \A i \in DOMAIN ratings : ratings'[i] = ratings[i]
                /\ LET rating == ratings'[Len(ratings')] IN
                   /\ JobExists(rating.job_id)
                   /\ role_of(rating.customer_id) = "CUSTOMER"
                   /\ repair_jobs[rating.job_id].customer_id = rating.customer_id
                   /\ repair_jobs[rating.job_id].status = "COMPLETED"
        /\ \A i \in DOMAIN ratings', k \in DOMAIN ratings' :
             ratings'[i].job_id = ratings'[k].job_id => i = k ]_vars

(***************************************************************************)
(* The engineer's scope: the admin assigns, reassigns and unassigns the    *)
(* job while requests of the engineers are served alone (notes, payment)   *)
(* or are in flight (status update, quote).                                *)
(***************************************************************************)
ScopeEngineers == { "e1" }
ScopeEngineerIdInputs == { "e1", "e2", NULL }
ScopeTargets == { "PENDING_VISIT", "ON_SITE_DIAGNOSIS" }
ScopeCostInputs == { NULL, "100.0" }

NextScope ==
    \/ \E u \in { "c1" } : create_job(u)
    \/ \E u \in Admins, j \in JobIdInputs, e \in ScopeEngineerIdInputs :
          assign_engineer_to_job(u, j, e)
    \/ \E u \in ScopeEngineers, j \in JobIdInputs : add_job_notes(u, j, "note")
    \/ \E u \in ScopeEngineers, j \in JobIdInputs, p \in PaymentInputs :
          update_payment_status(u, j, p, NULL)
    \/ \E r \in Reqs, u \in ScopeEngineers, j \in JobIdInputs, s \in ScopeTargets :
          begin_update_job_status(r, u, j, s, NULL, NULL)
    \/ \E r \in Reqs, u \in ScopeEngineers, j \in JobIdInputs, ec \in ScopeCostInputs :
          begin_update_job_quote(r, u, j, ec, NULL, NULL)
    \/ \E r \in Reqs : commit_job(r)
    \/ \E r \in Reqs : commit_status_update(r)

SpecScope == Init /\ [][NextScope]_vars

\* C31 -- Engineer scoping: an engineer's status-update, notes, quote or
\* payment request changes a job only if the job's engineer_id is that
\* engineer's id; after the admin has unassigned or reassigned the job, the
\* previous engineer can no longer change it.  Every step of an engineer's
\* request that changes the stored job finds the job assigned to that
\* engineer.
C31_EngineerScoping ==
    [][ \A j \in DOMAIN repair_jobs, e \in ScopeEngineers :
          ( /\ repair_jobs'[j] # repair_jobs[j]
            /\ \/ add_job_notes(e, j, "note")
               \/ \E p \in PaymentInputs : update_payment_status(e, j, p, NULL)
               \/ \E r \in Reqs : /\ commit_job(r)
                                  /\ req[r].user = e
                                  /\ req[r].job_id = j )
          => repair_jobs[j].engineer_id = e ]_vars

(***************************************************************************)
(* The audit trail of a job, requests served one at a time: the admin and  *)
(* the assigned engineer move the job over every status, the admin assigns *)
(* and unassigns, the customer cancels.                                    *)
(***************************************************************************)
ChainStatusRequesters == { "a1", "e1" }
ChainCancelRequesters == { "c1" }
ChainEngineerIdInputs == { "e1", NULL }

NextChain ==
    \/ \E u \in { "c1" } : create_job(u)
    \/ \E u \in ChainStatusRequesters, j \in JobIdInputs, s \in JobStatus :
          update_job_status(u, j, s, NULL, NULL)
    \/ \E u \in ChainCancelRequesters, j \in JobIdInputs : cancel_job(u, j)
    \/ \E u \in Admins, j \in JobIdInputs, e \in ChainEngineerIdInputs :
          assign_engineer_to_job(u, j, e)

SpecChain == Init /\ [][NextChain]_vars

\* The rows of a job in job_status_updates, in insertion order.
JobHistory(job_id) == SelectSeq(job_status_updates, LAMBDA row : row.job_id = job_id)

C33_HistoryConformance ==
    \A i \in DOMAIN job_status_updates :
       LET row == job_status_updates[i] IN
       ( row.previous_status # NULL /\ row.previous_status # row.new_status )
       => row.new_status \in TableGet(ADMIN_TRANSITIONS, row.previous_status)

(***************************************************************************)
(* The way to the lab, requests served one at a time: the admin and the    *)
(* assigned engineer ask for every status, with and without a consent flag.*)
(***************************************************************************)
LabStatusRequesters == { "a1", "e1" }

NextLab ==
    \/ \E u \in { "c1" } : create_job(u)
    \/ \E u \in Admins, j \in JobIdInputs, e \in OpsEngineerIdInputs :
          assign_engineer_to_job(u, j, e)
    \/ \E u \in LabStatusRequesters, j \in JobIdInputs, s \in JobStatus, c \in ConsentInputs :
          update_job_status(u, j, s, NULL, c)

SpecLab == Init /\ [][NextLab]_vars

\* C34 -- Consent invariant for lab transit and diagnosis: with requests
\* served one at a time, a job whose status is IN_TRANSIT_TO_LAB or
\* LAB_DIAGNOSIS has customer_consent_for_lab true, and no step withdraws
\* the flag of a job that is in either status.
C34_ConsentInLabTransit ==
    [][ \A j \in DOMAIN repair_jobs' :
          /\ repair_jobs'[j].status \in { "IN_TRANSIT_TO_LAB", "LAB_DIAGNOSIS" }
                => repair_jobs'[j].customer_consent_for_lab
          /\ ( /\ j \in DOMAIN repair_jobs
               /\ repair_jobs[j].status \in { "IN_TRANSIT_TO_LAB", "LAB_DIAGNOSIS" }
               /\ repair_jobs[j].customer_consent_for_lab )
                => repair_jobs'[j].customer_consent_for_lab ]_vars

\* A job is in the lab diagnosis with its consent recorded, and a
\* same-status update was accepted while it was in transit to the lab.
C34_Witness ==
    \E j \in DOMAIN repair_jobs :
       /\ repair_jobs[j].status = "LAB_DIAGNOSIS"
       /\ repair_jobs[j].customer_consent_for_lab
       /\ \E i \in DOMAIN job_status_updates :
             /\ job_status_updates[i].job_id = j
             /\ job_status_updates[i].previous_status = "IN_TRANSIT_TO_LAB"
             /\ job_status_updates[i].new_status = "IN_TRANSIT_TO_LAB"

\* C35 -- Consent covers lab repair: a job whose status is
\* REPAIR_IN_PROGRESS_LAB, PENDING_RETURN_DELIVERY or IN_TRANSIT_FROM_LAB has
\* customer_consent_for_lab true: no path of accepted transitions brings a
\* device into lab repair without recorded consent.
C35_ConsentInLabRepair ==
    \A j \in DOMAIN repair_jobs :
       repair_jobs[j].status \in { "REPAIR_IN_PROGRESS_LAB", "PENDING_RETURN_DELIVERY",
                                   "IN_TRANSIT_FROM_LAB" }
       => repair_jobs[j].customer_consent_for_lab

\* C36 -- Assignment consistency: in every reachable state a job in
\* PENDING_ASSIGNMENT has no engineer (engineer_id is null) and a job in
\* ASSIGNED has an engineer (engineer_id is not null), whichever of the
\* status endpoint and the assign endpoint brought it there.
C36_AssignmentConsistency ==
    \A j \in DOMAIN repair_jobs :
       /\ repair_jobs[j].status = "PENDING_ASSIGNMENT" => repair_jobs[j].engineer_id = NULL
       /\ repair_jobs[j].status = "ASSIGNED" => repair_jobs[j].engineer_id # NULL

\* C37 -- Quote approval in the service is admin-only: the status endpoint
\* refuses every request of a customer before it validates the transition,
\* and a job in PENDING_QUOTE_APPROVAL moves to REPAIR_IN_PROGRESS_LAB or
\* REPAIR_IN_PROGRESS_ON_SITE only through the request of an admin: every
\* write that makes this move is the commit of an admin's request.
C37_QuoteApprovalAdminOnly ==
    [][ /\ \A u \in Customers, j \in JobIdInputs, s \in JobStatus :
              StatusUpdateCheck(u, j, s) = Forbidden
        /\ \A j \in DOMAIN repair_jobs :
              ( /\ repair_jobs[j].status = "PENDING_QUOTE_APPROVAL"
                /\ repair_jobs'[j].status \in { "REPAIR_IN_PROGRESS_LAB",
                                                "REPAIR_IN_PROGRESS_ON_SITE" } )
              => \E r \in Reqs : commit_job(r) /\ role_of(req[r].user) = "ADMIN" ]_vars

\* C38 -- No deadlock at the consent gate: a job in PENDING_PICKUP_FOR_LAB
\* whose consent flag is false always has an accepted next step for its
\* assigned engineer: the checks of the status endpoint accept the fallback
\* to ON_SITE_DIAGNOSIS and the same-status update; the fallback, when sent,
\* is answered OK and moves the job; and the same-status update carrying
\* customer_consent_for_lab = true, when sent, is answered OK and records
\* the consent, after which the engineer's IN_TRANSIT_TO_LAB is accepted.
C38_NoDeadlockAtConsentGate ==
    [][ \A j \in DOMAIN repair_jobs :
          LET job == repair_jobs[j]
              e == job.engineer_id
          IN  ( /\ job.status = "PENDING_PICKUP_FOR_LAB"
                /\ ~job.customer_consent_for_lab
                /\ e \in Engineers )
              => /\ StatusUpdateCheck(e, j, "ON_SITE_DIAGNOSIS") = OK
                 /\ StatusUpdateCheck(e, j, "PENDING_PICKUP_FOR_LAB") = OK
                 /\ \A c \in ConsentInputs :
                       update_job_status(e, j, "ON_SITE_DIAGNOSIS", NULL, c)
                       => /\ response' = OK
                          /\ repair_jobs'[j].status = "ON_SITE_DIAGNOSIS"
                 /\ update_job_status(e, j, "PENDING_PICKUP_FOR_LAB", NULL, "true")
                       => /\ response' = OK
                          /\ repair_jobs'[j].customer_consent_for_lab
                          /\ StatusUpdateCheck(e, j, "IN_TRANSIT_TO_LAB")' = OK ]_vars

\* The gate has refused a job that waits for its pickup without consent, and
\* the engineer the job is assigned to still has both ways out.
C38_Witness ==
    /\ response = ConsentRequired
    /\ \E j \in DOMAIN repair_jobs :
          /\ repair_jobs[j].status = "PENDING_PICKUP_FOR_LAB"
          /\ ~repair_jobs[j].customer_consent_for_lab
          /\ repair_jobs[j].engineer_id \in Engineers
          /\ StatusUpdateCheck(repair_jobs[j].engineer_id, j, "ON_SITE_DIAGNOSIS") = OK
          /\ StatusUpdateCheck(repair_jobs[j].engineer_id, j, "PENDING_PICKUP_FOR_LAB") = OK

(***************************************************************************)
(* The payment of a job with requests in flight together: the creation,    *)
(* the assignment and the status updates run without another request      *)
(* between, while a cancel or a payment request may be in flight beside    *)
(* them.                                                                   *)
(***************************************************************************)
PayRequesters == { "a1", "e1" }

NextPay ==
    \/ \E u \in { "c1" } : create_job(u)
    \/ \E u \in Admins, j \in JobIdInputs, e \in OpsEngineerIdInputs :
          assign_engineer_to_job(u, j, e)
    \/ \E u \in Admins, j \in JobIdInputs, s \in LateTargets :
          update_job_status(u, j, s, NULL, NULL)
    \/ \E r \in Reqs, u \in LateCancelRequesters, j \in JobIdInputs : begin_cancel_job(r, u, j)
    \/ \E r \in Reqs, u \in PayRequesters, j \in JobIdInputs, p \in PaymentInputs :
          begin_update_payment_status(r, u, j, p, NULL)
    \/ \E r \in Reqs : commit_job(r)
    \/ \E r \in Reqs : commit_status_update(r)

SpecPay == Init /\ [][NextPay]_vars

\* C39 -- Payment-status gating: a payment-status update is accepted only
\* while the job's status is PENDING_PAYMENT or COMPLETED; a rejected update
\* leaves payment_status unchanged, and an accepted one changes
\* payment_status without changing the job's status or writing a
\* JobStatusUpdate row.  payment_status is written only while the stored
\* status is PENDING_PAYMENT or COMPLETED, by a step that leaves the status
\* and the audit table as they are, and a request that is refused writes no
\* table.
C39_PaymentGating ==
    [][ /\ \A j \in DOMAIN repair_jobs :
             repair_jobs'[j].payment_status # repair_jobs[j].payment_status
             => /\ repair_jobs[j].status \in { "PENDING_PAYMENT", "COMPLETED" }
                /\ repair_jobs'[j].status = repair_jobs[j].status
                /\ job_status_updates' = job_status_updates
        /\ \A u \in PayRequesters, j \in JobIdInputs, p \in PaymentInputs :
             ( /\ PaymentCheck(u, j) # OK
               /\ \/ update_payment_status(u, j, p, NULL)
                  \/ \E r \in Reqs : begin_update_payment_status(r, u, j, p, NULL) )
             => UNCHANGED << repair_jobs, job_status_updates, ratings >> ]_vars

====
